---- MODULE Spec2Model ----
(***************************************************************************)
(* Issuer-scoped API-key rate limiting of StellarCert:                     *)
(*   RateLimitService (resolveIssuer, consume, getUsageSummary and the two *)
(*   queue dispatchers), RateLimitGuard and RateLimitController.           *)
(*                                                                         *)
(* Clock unit: one unit of `now` is 150_000 ms, so the hard-coded cache    *)
(* lifetime 5 * 60_000 ms is 2 units; windowMs is a configured number of   *)
(* units.  Every comparison of the code is linear in the clock, so the     *)
(* scaling keeps the boundary cases (>=, >) exactly.                       *)
(*                                                                         *)
(* The runtime is a single-threaded event loop: a request runs without     *)
(* interruption between two awaits.  canActivate has one await             *)
(* (resolveIssuer), resolveIssuer has one await (findOne); each action     *)
(* below is one such uninterrupted stretch.                                *)
(***************************************************************************)
EXTENDS Integers, FiniteSets, Sequences, TLC

\* ---------------------------------------------------------------- bounds
MaxFreeLimit == 3
MaxPaidLimit == 3
MaxWindowMs == 2
MaxTime == 3
MaxDenied == 2
NumRequests == 2
MaxGatePaidLimit == 2
MaxInFlight == 2
MaxTriggers == 2

\* ------------------------------------------------------------- constants
FREE == "free"
PAID == "paid"
UNSET == ""
IssuerTier == {FREE, PAID}

CacheTtl == 2

Requests == 1..NumRequests
ApiKeys == {"k1"}
Issuers == {"i1"}
Routes == {"/certificates/:id"}
NoHeader == ""

VARIABLES
  windowMs, freeLimit, paidLimit,   \* configuration read by the constructor
  now,                              \* Date.now()
  usage,                            \* Map<string, UsageBucket>
  issuerCache,                      \* Map<string, CachedIssuer>
  issuers,                          \* durable issuer table (issuerRepository)
  req,                              \* in-flight canActivate calls
  win,                              \* history: per bucket, what happened in its current window
  lastOp,                           \* history: the last consume call and its result
  response,                         \* what the last finished canActivate, or
                                    \* the last getUsage, left
  versionCall,                      \* the last call of VersionService and what
                                    \* it returned
  deprecation,                      \* the request inside DeprecationInterceptor
                                    \* and the headers of its response
  admitted,                         \* history: per bucket, the times of the
                                    \* consumes that LoggedConsume saw allowed
  verifier,                         \* the VerifyCertificate component: its
                                    \* state, its ref and the calls in flight
  webhooks                          \* WebhooksService: the subscription table,
                                    \* the 'webhooks' queue, the triggerEvent call

vars == <<windowMs, freeLimit, paidLimit, now, usage, issuerCache, issuers,
          req, win, lastOp, response, versionCall, deprecation, admitted,
          verifier, webhooks>>

\* the state of the rate limiting, and the state outside it
rateVars == <<windowMs, freeLimit, paidLimit, now, usage, issuerCache, issuers,
              req, win, lastOp, response>>

outside == <<versionCall, deprecation, admitted, verifier, webhooks>>

\* ---------------------------------------------------------------- helpers
\* nothing was called yet
NoCall == [op |-> "none", args |-> <<>>, result |-> <<>>]

\* Map.set(k, v)
MapSet(m, k, v) == [x \in (DOMAIN m) \cup {k} |-> IF x = k THEN v ELSE m[x]]

EmptyMap == [x \in {} |-> 0]

\* crypto.createHash('sha256').update(apiKey).digest('hex'): a one-way digest,
\* distinct for the distinct keys of the model
Sha256(apiKey) ==
  CASE apiKey = "k1" -> "6b86b2"
    [] apiKey = "k2" -> "d4735e"
    [] OTHER -> "e3b0c4"

\* the digests an issuer row can carry: the one of the key the requests
\* present, and the one of a key issued in its place
KeyHashes == {Sha256("k1"), Sha256("k2")}

NullIssuer == [id |-> "null", tier |-> "null"]

IdleReq == [pc |-> "idle", caller |-> "", apiKey |-> NoHeader, route |-> "",
            started |-> 0, hit |-> FALSE, issuer |-> NullIssuer]

Max(a, b) == IF a >= b THEN a ELSE b

BucketKeyOfIssuer(issuerId, routeKey) == issuerId \o ":"

\* `${issuerId}:${routeKey}` (line 226)
BucketKey(issuerId, routeKey) == issuerId \o ":" \o routeKey

\* tier === IssuerTier.PAID ? this.paidLimit : this.freeLimit
Limit(tier) == IF tier = PAID THEN paidLimit ELSE freeLimit

UpgradeThresholdCeil(limit) == (limit * 8 + 9) \div 10

\* Math.floor(limit * 0.8); the double product never falls below the exact
\* value 4*limit/5, so the floor is the integer quotient
UpgradeThreshold(limit) == (limit * 8) \div 10

\* ---------------------------------------------------------------- consume
FetchAlwaysCreates(key, tier, t) ==
  [windowStart |-> t, count |-> 0, tier |-> tier, notifiedUpgrade |-> FALSE]

\* RateLimitService.consume, lines 230-240: usage.get(key), created when absent
FetchOrCreate(key, tier, t) ==
  IF key \in DOMAIN usage
    THEN usage[key]
    ELSE [windowStart |-> t, count |-> 0, tier |-> tier, notifiedUpgrade |-> FALSE]

WindowExpiredEarly(bucket, t) == t - bucket.windowStart >= windowMs - 1

WindowExpiredStrict(bucket, t) == t - bucket.windowStart > windowMs

\* now - bucket.windowStart >= this.windowMs
WindowExpired(bucket, t) == t - bucket.windowStart >= windowMs

RolloverKeepsCount(bucket, tier, t) ==
  IF WindowExpired(bucket, t)
    THEN [windowStart |-> t, count |-> bucket.count, tier |-> tier,
          notifiedUpgrade |-> FALSE]
    ELSE bucket

\* lines 242-247: the reset in place
Rollover(bucket, tier, t) ==
  IF WindowExpired(bucket, t)
    THEN [windowStart |-> t, count |-> 0, tier |-> tier, notifiedUpgrade |-> FALSE]
    ELSE bucket

ResetAtSliding(bucket) == now + windowMs

\* bucket.windowStart + this.windowMs (lines 251 and 264)
ResetAt(bucket) == bucket.windowStart + windowMs

ConsumeLimitOfBucketTier(bucket, tier) == Limit(bucket.tier)

\* the limit consume judges the call against and returns (line 228)
ConsumeLimit(bucket, tier) == Limit(tier)

OverLimitOffByOne(bucket, limit) == bucket.count > limit

\* bucket.count >= limit
OverLimit(bucket, limit) == bucket.count >= limit

RemainingBeforeIncrement(limit, count) == Max(limit - (count - 1), 0)

\* Math.max(limit - bucket.count, 0), count being the incremented one
Remaining(limit, count) == Max(limit - count, 0)

ShouldNotifyEveryTime(tier, bucket, limit) ==
  /\ tier = FREE
  /\ bucket.count >= UpgradeThreshold(limit)

\* lines 266-270, evaluated on the incremented bucket
ShouldNotifyUpgrade(tier, bucket, limit) ==
  /\ tier = FREE
  /\ ~bucket.notifiedUpgrade
  /\ bucket.count >= UpgradeThreshold(limit)

\* the whole of consume as a function of the bucket map and the clock
ConsumeOutcome(issuerId, tier, routeKey, t) ==
  LET key == BucketKey(issuerId, routeKey)
      fetched == FetchOrCreate(key, tier, t)
      bucket == Rollover(fetched, tier, t)
      limit == ConsumeLimit(bucket, tier)
      resetAt == ResetAt(bucket)
  IN IF OverLimit(bucket, limit)
       THEN [bucket |-> bucket,
             result |-> [allowed |-> FALSE, limit |-> limit, remaining |-> 0,
                         resetAt |-> resetAt],
             exceeded |-> TRUE, upgrade |-> FALSE, jobCount |-> bucket.count,
             opened |-> key \notin DOMAIN usage \/ WindowExpired(fetched, t),
             rolled |-> key \in DOMAIN usage /\ WindowExpired(fetched, t)]
       ELSE LET inc == [bucket EXCEPT !.count = @ + 1]
                notify == ShouldNotifyUpgrade(tier, inc, limit)
            IN [bucket |-> [inc EXCEPT !.notifiedUpgrade = @ \/ notify],
                result |-> [allowed |-> TRUE, limit |-> limit,
                            remaining |-> Remaining(limit, inc.count),
                            resetAt |-> resetAt],
                exceeded |-> FALSE, upgrade |-> notify, jobCount |-> inc.count,
                opened |-> key \notin DOMAIN usage \/ WindowExpired(fetched, t),
                rolled |-> key \in DOMAIN usage /\ WindowExpired(fetched, t)]

FreshWin == [allowed |-> 0, denied |-> 0, tiers |-> {}, upgrades |-> 0,
             overlap |-> 0, exceededJobs |-> 0]

\* RateLimitJobType
EXCEEDED == "rate-limit-exceeded"
UPGRADE_NOTIFICATION == "rate-limit-upgrade-notification"

\* no dispatcher was called
NoJob == [type |-> "none", status |-> "none", logged |-> FALSE, unhandled |-> FALSE,
          payload |-> EmptyMap]

ExceededPayloadCounted(issuerId, tier, routeKey, timestamp, limit, count) ==
  [issuerId |-> issuerId, tier |-> tier, route |-> routeKey,
   timestamp |-> timestamp, limit |-> limit, count |-> count + 1]

\* the job data of enqueueExceeded (lines 327-334)
ExceededPayload(issuerId, tier, routeKey, timestamp, limit, count) ==
  [issuerId |-> issuerId, tier |-> tier, route |-> routeKey,
   timestamp |-> timestamp, limit |-> limit, count |-> count]

\* the job data of notifyUpgrade (lines 343-348)
UpgradePayload(issuerId, routeKey, limit, count) ==
  [issuerId |-> issuerId, route |-> routeKey, limit |-> limit, count |-> count]

DispatchAwaited(o, issuerId, tier, routeKey, timestamp) ==
  IF o.exceeded
    THEN [NoJob EXCEPT !.type = EXCEEDED, !.status = "resolved",
                       !.payload = ExceededPayload(issuerId, tier, routeKey, timestamp,
                                                   o.result.limit, o.jobCount)]
    ELSE IF o.upgrade
      THEN [NoJob EXCEPT !.type = UPGRADE_NOTIFICATION, !.status = "resolved",
                         !.logged = TRUE,
                         !.payload = UpgradePayload(issuerId, routeKey,
                                                    o.result.limit, o.jobCount)]
      ELSE NoJob

\* this.enqueueExceeded(...) at line 250 and this.notifyUpgrade(...) at line
\* 272: async functions called without await.  Each runs up to its
\* `await this.rateLimitQueue.add(...)` and hands back a promise that consume
\* drops; the job is that promise, pending when consume goes on
Dispatch(o, issuerId, tier, routeKey, timestamp) ==
  IF o.exceeded
    THEN [NoJob EXCEPT !.type = EXCEEDED, !.status = "pending",
                       !.payload = ExceededPayload(issuerId, tier, routeKey, timestamp,
                                                   o.result.limit, o.jobCount)]
    ELSE IF o.upgrade
      THEN [NoJob EXCEPT !.type = UPGRADE_NOTIFICATION, !.status = "pending",
                         !.payload = UpgradePayload(issuerId, routeKey,
                                                    o.result.limit, o.jobCount)]
      ELSE NoJob

NoOp == [op |-> "none", key |-> "", tier |-> "",
         result |-> [allowed |-> FALSE, limit |-> 0, remaining |-> 0, resetAt |-> 0],
         exceeded |-> FALSE, upgrade |-> FALSE, jobCount |-> 0, rolled |-> FALSE,
         afterDenial |-> FALSE, afterRejectedUpgrade |-> FALSE, job |-> NoJob]

\* consume applied to the state; inflight = the calls suspended at their await
\* while this consume runs (win.overlap keeps the largest seen in the window)
Consume(issuerId, tier, routeKey, inflight) ==
  LET key == BucketKey(issuerId, routeKey)
      o == ConsumeOutcome(issuerId, tier, routeKey, now)
      w0 == IF o.opened THEN FreshWin ELSE win[key]
  IN /\ o.result.allowed \/ w0.denied < MaxDenied
     /\ usage' = MapSet(usage, key, o.bucket)
     /\ win' = MapSet(win, key,
                 [allowed |-> w0.allowed + (IF o.result.allowed THEN 1 ELSE 0),
                  denied |-> w0.denied + (IF o.result.allowed THEN 0 ELSE 1),
                  tiers |-> w0.tiers \cup {tier},
                  upgrades |-> w0.upgrades + (IF o.upgrade THEN 1 ELSE 0),
                  overlap |-> Max(w0.overlap, inflight),
                  exceededJobs |->
                    w0.exceededJobs +
                    (IF Dispatch(o, issuerId, tier, routeKey, now).type = EXCEEDED
                       THEN 1 ELSE 0)])
     /\ lastOp' = [op |-> "consume", key |-> key, tier |-> tier,
                   result |-> o.result, exceeded |-> o.exceeded,
                   upgrade |-> o.upgrade, jobCount |-> o.jobCount,
                   rolled |-> o.rolled,
                   afterDenial |-> o.rolled /\ win[key].denied > 0,
                   afterRejectedUpgrade |->
                     /\ ~o.opened
                     /\ lastOp.key = key
                     /\ lastOp.job.type = UPGRADE_NOTIFICATION
                     /\ lastOp.job.status = "rejected",
                   job |-> Dispatch(o, issuerId, tier, routeKey, now)]

\* a caller of the exported service other than the guard
DirectConsume(issuerId, tier, routeKey) ==
  /\ Consume(issuerId, tier, routeKey,
             Cardinality({q \in Requests : req[q].pc # "idle"}))
  /\ UNCHANGED <<outside, windowMs, freeLimit, paidLimit, now, issuerCache, issuers, req,
                 response>>

\* consume called directly, its admissions written down with their times
LoggedConsume(issuerId, tier, routeKey) ==
  LET key == BucketKey(issuerId, routeKey)
      before == IF key \in DOMAIN admitted THEN admitted[key] ELSE <<>>
  IN /\ Consume(issuerId, tier, routeKey, 0)
     /\ admitted' =
          IF ConsumeOutcome(issuerId, tier, routeKey, now).result.allowed
            THEN MapSet(admitted, key, Append(before, now))
            ELSE admitted
     /\ UNCHANGED <<versionCall, deprecation, verifier, webhooks, windowMs, freeLimit, paidLimit, now,
                    issuerCache, issuers, req, response>>

\* ------------------------------------------------------------- dispatchers
\* rateLimitQueue.add resolves: the dispatcher runs to its end (lines 327-335,
\* 343-352), notifyUpgrade through its loggingService.log
QueueAddResolves ==
  /\ lastOp.job.status = "pending"
  /\ lastOp' = [lastOp EXCEPT !.job.status = "resolved",
                              !.job.logged = (lastOp.job.type = UPGRADE_NOTIFICATION)]
  /\ UNCHANGED <<outside, windowMs, freeLimit, paidLimit, now, usage, issuerCache, issuers,
                 req, win, response>>

QueueAddRejectsAndForgets ==
  /\ lastOp.job.status = "pending"
  /\ lastOp' = [lastOp EXCEPT !.job.status = "rejected", !.job.unhandled = TRUE]
  /\ usage' = [usage EXCEPT ![lastOp.key].notifiedUpgrade =
                 IF lastOp.job.type = UPGRADE_NOTIFICATION THEN FALSE ELSE @]
  /\ UNCHANGED <<outside, windowMs, freeLimit, paidLimit, now, issuerCache, issuers,
                 req, win, response>>

\* rateLimitQueue.add rejects: the await throws inside the dispatcher, which
\* has no try/catch, so its promise is rejected; consume attached no handler
\* to it, and the runtime reports an unhandled rejection
QueueAddRejects ==
  /\ lastOp.job.status = "pending"
  /\ lastOp' = [lastOp EXCEPT !.job.status = "rejected", !.job.unhandled = TRUE]
  /\ UNCHANGED <<outside, windowMs, freeLimit, paidLimit, now, usage, issuerCache, issuers,
                 req, win, response>>

\* ---------------------------------------------------------- resolveIssuer
FindOneAnyStatus(apiKeyHash) ==
  {i \in Issuers : issuers[i].apiKeyHash = apiKeyHash}

\* issuerRepository.findOne({ where: { apiKeyHash, isActive: true } })
FindOne(apiKeyHash) ==
  {i \in Issuers : issuers[i].apiKeyHash = apiKeyHash /\ issuers[i].isActive}

CacheHitInverted(apiKey, t) ==
  apiKey \in DOMAIN issuerCache /\ issuerCache[apiKey].cacheUntil < t

CacheHitInclusive(apiKey, t) ==
  apiKey \in DOMAIN issuerCache /\ issuerCache[apiKey].cacheUntil >= t

\* cached && cached.cacheUntil > now
CacheHit(apiKey, t) ==
  apiKey \in DOMAIN issuerCache /\ issuerCache[apiKey].cacheUntil > t

\* now + 5 * 60_000, now being read at the start of resolveIssuer
CacheUntil(started, completed) == started + CacheTtl

\* issuer.tier || IssuerTier.FREE
TierOrFree(tier) == IF tier = UNSET THEN FREE ELSE tier

\* request slots are interchangeable: a new call takes the first free one
FreeSlot(r) == req[r].pc = "idle" /\ \A q \in Requests : q < r => req[q].pc # "idle"

ResolveStartSingleFlight(caller, apiKey, route) ==
  IF CacheHit(apiKey, now)
    THEN [IdleReq EXCEPT !.pc = "resolved", !.caller = caller, !.apiKey = apiKey,
            !.route = route, !.hit = TRUE,
            !.issuer = [id |-> issuerCache[apiKey].issuerId,
                        tier |-> issuerCache[apiKey].tier]]
    ELSE IF \E q \in Requests : req[q].pc = "lookup" /\ req[q].apiKey = apiKey
      THEN [IdleReq EXCEPT !.pc = "resolved", !.caller = caller, !.apiKey = apiKey,
              !.route = route]
      ELSE [IdleReq EXCEPT !.pc = "lookup", !.caller = caller, !.apiKey = apiKey,
              !.route = route, !.started = now]

\* the synchronous part of resolveIssuer (lines 193-204): the cached identity,
\* or the durable lookup started with `now` kept for cacheUntil
ResolveStart(caller, apiKey, route) ==
  IF CacheHit(apiKey, now)
    THEN [IdleReq EXCEPT !.pc = "resolved", !.caller = caller, !.apiKey = apiKey,
            !.route = route, !.hit = TRUE,
            !.issuer = [id |-> issuerCache[apiKey].issuerId,
                        tier |-> issuerCache[apiKey].tier]]
    ELSE [IdleReq EXCEPT !.pc = "lookup", !.caller = caller, !.apiKey = apiKey,
            !.route = route, !.started = now]

\* canActivate with an x-api-key header, up to its await (lines 16-33); the
\* guard is handed the identity only, the hit flag is history of direct calls
GuardStart(r, apiKey, route) ==
  /\ FreeSlot(r)
  /\ apiKey # NoHeader
  /\ req' = [req EXCEPT ![r] = [ResolveStart("guard", apiKey, route) EXCEPT !.hit = FALSE]]
  /\ UNCHANGED <<outside, windowMs, freeLimit, paidLimit, now, usage, issuerCache, issuers,
                 win, lastOp, response>>

\* resolveIssuer called by another user of the exported service
DirectResolve(r, apiKey) ==
  /\ FreeSlot(r)
  /\ req' = [req EXCEPT ![r] = ResolveStart("direct", apiKey, "")]
  /\ UNCHANGED <<outside, windowMs, freeLimit, paidLimit, now, usage, issuerCache, issuers,
                 win, lastOp, response>>

\* that caller receives the identity, or the error of the lookup
DirectReturn(r) ==
  /\ req[r].pc \in {"resolved", "failed"}
  /\ req[r].caller = "direct"
  /\ req' = [req EXCEPT ![r] = IdleReq]
  /\ UNCHANGED <<outside, windowMs, freeLimit, paidLimit, now, usage, issuerCache, issuers,
                 win, lastOp, response>>

FindOneReturnEvicts(r) ==
  /\ req[r].pc = "lookup"
  /\ LET found == FindOne(Sha256(req[r].apiKey))
     IN IF found = {}
          THEN /\ req' = [req EXCEPT ![r].pc = "resolved", ![r].started = 0,
                                     ![r].issuer = NullIssuer]
               /\ issuerCache' = [k \in DOMAIN issuerCache \ {req[r].apiKey} |->
                                    issuerCache[k]]
          ELSE \E i \in found :
               LET tier == TierOrFree(issuers[i].tier)
               IN /\ issuerCache' = MapSet(issuerCache, req[r].apiKey,
                        [issuerId |-> i, tier |-> tier,
                         cacheUntil |-> CacheUntil(req[r].started, now),
                         called |-> req[r].started, created |-> now])
                  /\ req' = [req EXCEPT ![r].pc = "resolved", ![r].started = 0,
                                        ![r].issuer = [id |-> i, tier |-> tier]]
  /\ UNCHANGED <<outside, windowMs, freeLimit, paidLimit, now, usage, issuers, win, lastOp,
                 response>>

\* findOne resolves: the rest of resolveIssuer (lines 206-218)
FindOneReturn(r) ==
  /\ req[r].pc = "lookup"
  /\ LET found == FindOne(Sha256(req[r].apiKey))
     IN IF found = {}
          THEN /\ req' = [req EXCEPT ![r].pc = "resolved", ![r].started = 0,
                                     ![r].issuer = NullIssuer]
               /\ UNCHANGED issuerCache
          ELSE \E i \in found :
               LET tier == TierOrFree(issuers[i].tier)
               IN /\ issuerCache' = MapSet(issuerCache, req[r].apiKey,
                        [issuerId |-> i, tier |-> tier,
                         cacheUntil |-> CacheUntil(req[r].started, now),
                         called |-> req[r].started, created |-> now])
                  /\ req' = [req EXCEPT ![r].pc = "resolved", ![r].started = 0,
                                        ![r].issuer = [id |-> i, tier |-> tier]]
  /\ UNCHANGED <<outside, windowMs, freeLimit, paidLimit, now, usage, issuers, win, lastOp,
                 response>>

FindOneFailAsNull(r) ==
  /\ req[r].pc = "lookup"
  /\ req' = [req EXCEPT ![r].pc = "resolved", ![r].started = 0,
                         ![r].issuer = NullIssuer]
  /\ UNCHANGED <<outside, windowMs, freeLimit, paidLimit, now, usage, issuerCache, issuers,
                 win, lastOp, response>>

\* findOne rejects: the await at line 202 throws, nothing catches it, and the
\* promise of resolveIssuer is rejected with that error
FindOneFail(r) ==
  /\ req[r].pc = "lookup"
  /\ req' = [req EXCEPT ![r].pc = "failed", ![r].started = 0]
  /\ UNCHANGED <<outside, windowMs, freeLimit, paidLimit, now, usage, issuerCache, issuers,
                 win, lastOp, response>>

\* ------------------------------------------------------------ canActivate
\* request.headers['x-api-key']: absent, one value, or several values
XApiKeyHeaders ==
  {[kind |-> "undefined", values |-> <<>>],
   [kind |-> "string", values |-> <<NoHeader>>],
   [kind |-> "string", values |-> <<"k1">>],
   [kind |-> "array", values |-> <<>>],
   [kind |-> "array", values |-> <<NoHeader, "k1">>],
   [kind |-> "array", values |-> <<"k1", "k2">>]}

\* lines 22-27; undefined is the empty string of the model, falsy like it
ApiKeyOf(header) ==
  IF header.kind = "string" THEN header.values[1]
  ELSE IF header.kind = "array" /\ Len(header.values) >= 1 THEN header.values[1]
  ELSE NoHeader

\* the requests that reach the guard: request.route?.path, request.originalUrl
\* and request.url, "" standing for undefined.  Two requests matched by the
\* router on the pattern with different ids, and the same URL on a request
\* object that carries no route (and one that carries no originalUrl either)
HttpRequests ==
  {[routePath |-> "/certificates/:id", originalUrl |-> "/certificates/7",
    url |-> "/certificates/7"],
   [routePath |-> "/certificates/:id", originalUrl |-> "/certificates/42",
    url |-> "/certificates/42"],
   [routePath |-> "", originalUrl |-> "/certificates/42", url |-> "/certificates/42"],
   [routePath |-> "", originalUrl |-> "", url |-> "/certificates/42"]}

\* request.route?.path || request.originalUrl || request.url (lines 41-44)
RoutePath(request) ==
  IF request.routePath # "" THEN request.routePath
  ELSE IF request.originalUrl # "" THEN request.originalUrl
  ELSE request.url

\* the clock counts milliseconds
MsPerUnit == 150 * 1000

ToMs(t) == t * MsPerUnit

\* Math.floor(a / b) and Math.ceil(a / b) for b > 0
FloorDiv(a, b) == a \div b

CeilDiv(a, b) == -((-a) \div b)

NoResponse == [outcome |-> "none", headers |-> EmptyMap, retryAfterSeconds |-> 0,
               data |-> {}]

ReturnTrueWithLimitHeader ==
  [NoResponse EXCEPT !.outcome = "true",
                     !.headers = MapSet(EmptyMap, "X-RateLimit-Limit", ToString(freeLimit))]

\* `return true` at line 30, before anything was set on the response
ReturnTrue == [NoResponse EXCEPT !.outcome = "true"]

NotResolvedNever(issuer) == FALSE

\* !issuer (line 35)
NotResolved(issuer) == issuer = NullIssuer

\* a throw of canActivate before any header was set
Rejected(exception) == [NoResponse EXCEPT !.outcome = exception]

RateLimitHeadersResetInMs(result) ==
  [h \in {"X-RateLimit-Limit", "X-RateLimit-Remaining", "X-RateLimit-Reset"} |->
     CASE h = "X-RateLimit-Limit" -> ToString(result.limit)
       [] h = "X-RateLimit-Remaining" -> ToString(result.remaining)
       [] OTHER -> ToString(ToMs(result.resetAt))]

\* lines 52-57
RateLimitHeaders(result) ==
  [h \in {"X-RateLimit-Limit", "X-RateLimit-Remaining", "X-RateLimit-Reset"} |->
     CASE h = "X-RateLimit-Limit" -> ToString(result.limit)
       [] h = "X-RateLimit-Remaining" -> ToString(result.remaining)
       [] OTHER -> ToString(FloorDiv(ToMs(result.resetAt), 1000))]

RetryAfterUnclamped(resetAt, clock) == CeilDiv(ToMs(resetAt) - clock, 1000)

\* lines 60-63, clock being the guard's own Date.now() in milliseconds
RetryAfterSeconds(resetAt, clock) == Max(CeilDiv(ToMs(resetAt) - clock, 1000), 1)

\* lines 52-77: the headers, then 429 or true
GuardResponse(result, clock) ==
  IF ~result.allowed
    THEN LET retryAfterSeconds == RetryAfterSeconds(result.resetAt, clock)
         IN [outcome |-> "TooManyRequests",
             headers |-> MapSet(RateLimitHeaders(result), "Retry-After",
                                ToString(retryAfterSeconds)),
             retryAfterSeconds |-> retryAfterSeconds, data |-> {}]
    ELSE [outcome |-> "true", headers |-> RateLimitHeaders(result),
          retryAfterSeconds |-> 0, data |-> {}]

\* the time that passes between the Date.now() of consume and the one of the
\* guard at line 61, in milliseconds: none, one, or a whole window
GuardLags == {0, 1, ToMs(windowMs)}

\* no usable x-api-key header: return true (lines 21-31)
GuardNoKey(r) ==
  /\ FreeSlot(r)
  /\ \E header \in XApiKeyHeaders : ApiKeyOf(header) = NoHeader
  /\ lastOp' = NoOp
  /\ response' = ReturnTrue
  /\ UNCHANGED <<outside, windowMs, freeLimit, paidLimit, now, usage, issuerCache, issuers,
                 req, win>>

\* after the await: the error of the lookup, Unauthorized, or consume and the
\* headers (lines 33-77)
GuardResume(r) ==
  /\ req[r].pc \in {"resolved", "failed"}
  /\ req[r].caller = "guard"
  /\ req' = [req EXCEPT ![r] = IdleReq]
  /\ IF req[r].pc = "failed"
       THEN /\ lastOp' = NoOp
            /\ response' = Rejected("Error")
            /\ UNCHANGED <<usage, win, now>>
       ELSE IF NotResolved(req[r].issuer)
       THEN /\ lastOp' = NoOp
            /\ response' = Rejected("UnauthorizedException")
            /\ UNCHANGED <<usage, win, now>>
       ELSE /\ Consume(req[r].issuer.id, req[r].issuer.tier, req[r].route,
                       Cardinality({q \in Requests \ {r} : req[q].pc # "idle"}))
            /\ LET result == ConsumeOutcome(req[r].issuer.id, req[r].issuer.tier,
                                            req[r].route, now).result
               IN \E lag \in (IF result.allowed THEN {0} ELSE GuardLags) :
                    /\ now + lag \div MsPerUnit <= MaxTime
                    /\ now' = now + lag \div MsPerUnit
                    /\ response' = GuardResponse(result, ToMs(now) + lag)
  /\ UNCHANGED <<outside, windowMs, freeLimit, paidLimit, issuerCache, issuers>>

\* --------------------------------------------------------- getUsageSummary
\* route.split(':') for the route patterns of the model
RouteSegments(route) ==
  CASE route = "/certificates/:id" -> <<"/certificates/", "id">>
    [] OTHER -> <<route>>

\* an issuer and a route besides the ones the requests of the model carry,
\* for callers of consume other than the guard
OtherIssuers == {"i2"}
OtherRoutes == {"/issuers"}

\* key.split(':'), key being `${issuerId}:${routeKey}` and issuer ids (uuids)
\* holding no colon
SplitKey(key) ==
  LET made == {p \in (Issuers \cup OtherIssuers) \X (Routes \cup OtherRoutes) :
                 BucketKey(p[1], p[2]) = key}
      p == CHOOSE q \in made : TRUE
  IN <<p[1]>> \o RouteSegments(p[2])

\* lines 297-314: one tuple per bucket whose window has not expired; the
\* array is kept as the set of its tuples
UsageSummary(t) ==
  {[issuerId |-> SplitKey(k)[1], route |-> SplitKey(k)[2],
    tier |-> usage[k].tier, count |-> usage[k].count,
    limit |-> Limit(usage[k].tier), resetAt |-> ResetAt(usage[k])] :
     k \in {x \in DOMAIN usage : ~WindowExpired(usage[x], t)}}

GetUsageEvicting ==
  /\ response' = [NoResponse EXCEPT !.outcome = "usage", !.data = UsageSummary(now)]
  /\ usage' = [k \in {x \in DOMAIN usage : ~WindowExpired(usage[x], now)} |-> usage[k]]
  /\ UNCHANGED <<outside, windowMs, freeLimit, paidLimit, now, issuerCache, issuers,
                 req, win, lastOp>>

GetUsagePruning ==
  /\ response' = [NoResponse EXCEPT !.outcome = "usage", !.data = UsageSummary(now)]
  /\ usage' = [k \in DOMAIN usage |->
                 IF WindowExpired(usage[k], now)
                   THEN [usage[k] EXCEPT !.count = 0] ELSE usage[k]]
  /\ UNCHANGED <<outside, windowMs, freeLimit, paidLimit, now, issuerCache, issuers,
                 req, win, lastOp>>

\* RateLimitController.getUsage: the body carries what getUsageSummary (lines
\* 285-317) returns
GetUsage ==
  /\ response' = [NoResponse EXCEPT !.outcome = "usage", !.data = UsageSummary(now)]
  /\ UNCHANGED <<outside, windowMs, freeLimit, paidLimit, now, usage, issuerCache, issuers,
                 req, win, lastOp>>

\* ---------------------------------------------------------- VersionService
\* enum ApiVersion, CURRENT_VERSION, SUPPORTED_VERSIONS, DEPRECATED_VERSIONS
V1 == "1"
V2 == "2"
CURRENT_VERSION == V1
SUPPORTED_VERSIONS == <<V1>>
DEPRECATED_VERSIONS == <<>>

\* what a caller can pass for a version: a string (a query parameter is any
\* string) or undefined (the parameter is missing)
Str(text) == [kind |-> "string", text |-> text]

Undefined == [kind |-> "undefined", text |-> ""]

VersionArgs ==
  {Str("1"), Str("2"), Str("3"), Str(""), Str("-"), Str("1-2"), Str("2-1"),
   Str("v1"), Str("undefined"), Undefined}

\* a value inside a template literal
TemplateString(v) == IF v.kind = "undefined" THEN "undefined" ELSE v.text

GuideKeyReversed(fromVersion, toVersion) ==
  TemplateString(toVersion) \o "-" \o TemplateString(fromVersion)

\* `${fromVersion}-${toVersion}` (line 70)
GuideKey(fromVersion, toVersion) ==
  TemplateString(fromVersion) \o "-" \o TemplateString(toVersion)

\* the record `guides` (lines 45-68)
Guides ==
  [k \in {"1-2"} |->
     [fromVersion |-> Str(V1),
      toVersion |-> Str(V2),
      breakingChanges |->
        <<"Authentication endpoints now require API key in addition to JWT",
          "Certificate response format changed to include additional metadata",
          "Date fields now use ISO 8601 format instead of Unix timestamps">>,
      newFeatures |->
        <<"Batch certificate operations",
          "Enhanced search capabilities with filters",
          "Webhook support for certificate events",
          "Rate limiting headers in responses">>,
      migrationSteps |->
        <<"Update authentication to include API key header",
          "Update date parsing to handle ISO 8601 format",
          "Review and update certificate response handling",
          "Test all endpoints with new response format",
          "Update error handling for new error codes">>]]

\* guides[key] || { ... } (lines 71-79); no property that `guides` inherits has
\* a hyphen in its name, so only its own key is ever found
MigrationGuide(fromVersion, toVersion) ==
  LET key == GuideKey(fromVersion, toVersion)
  IN IF key \in DOMAIN Guides
       THEN Guides[key]
       ELSE [fromVersion |-> fromVersion,
             toVersion |-> toVersion,
             breakingChanges |-> <<>>,
             newFeatures |-> <<>>,
             migrationSteps |-> <<"No migration guide available for this version pair">>]

\* Array.prototype.includes on an array of strings
Includes(array, v) ==
  v.kind = "string" /\ \E n \in DOMAIN array : array[n] = v.text

\* getSunsetDate (lines 99-106): the table is empty
SunsetDate(version) == Undefined

\* getVersionInfo (lines 19-34)
VersionInfo ==
  [currentVersion |-> CURRENT_VERSION,
   supportedVersions |-> SUPPORTED_VERSIONS,
   versions |->
     [n \in DOMAIN SUPPORTED_VERSIONS |->
        [version |-> SUPPORTED_VERSIONS[n],
         deprecated |-> Includes(DEPRECATED_VERSIONS, Str(SUPPORTED_VERSIONS[n])),
         sunsetDate |-> SunsetDate(SUPPORTED_VERSIONS[n]),
         recommendedVersion |->
           IF Includes(DEPRECATED_VERSIONS, Str(SUPPORTED_VERSIONS[n]))
             THEN Str(CURRENT_VERSION) ELSE Undefined]]]

GetMigrationGuide(fromVersion, toVersion) ==
  /\ versionCall' = [op |-> "getMigrationGuide", args |-> <<fromVersion, toVersion>>,
                     result |-> MigrationGuide(fromVersion, toVersion)]
  /\ UNCHANGED <<rateVars, deprecation, admitted, verifier, webhooks>>

GetVersionInfo ==
  /\ versionCall' = [op |-> "getVersionInfo", args |-> <<>>, result |-> VersionInfo]
  /\ UNCHANGED <<rateVars, deprecation, admitted, verifier, webhooks>>

\* isVersionSupported (lines 85-87)
IsVersionSupported(version) ==
  /\ versionCall' = [op |-> "isVersionSupported", args |-> <<version>>,
                     result |-> Includes(SUPPORTED_VERSIONS, version)]
  /\ UNCHANGED <<rateVars, deprecation, admitted, verifier, webhooks>>

\* isVersionDeprecated (lines 92-94)
IsVersionDeprecated(version) ==
  /\ versionCall' = [op |-> "isVersionDeprecated", args |-> <<version>>,
                     result |-> Includes(DEPRECATED_VERSIONS, version)]
  /\ UNCHANGED <<rateVars, deprecation, admitted, verifier, webhooks>>

\* ---------------------------------------------------- DeprecationInterceptor
\* what @Deprecated(deprecatedSince, sunsetDate?, alternativeEndpoint?) stores
\* under 'deprecated'; NoMetadata is a target without the decorator
NoMetadata == [present |-> FALSE]

DeprecationMetadatas ==
  [present : {TRUE},
   since : {V1, V2},
   sunsetDate : {Undefined, Str(""), Str("2025-12-31")},
   alternativeEndpoint : {Undefined, Str(""), Str("/api/v2/endpoint")}]

\* reflector.getAllAndOverride('deprecated', [handler, class]): the first
\* target that has the metadata
GetAllAndOverride(handlerMetadata, classMetadata) ==
  IF handlerMetadata.present THEN handlerMetadata ELSE classMetadata

\* if (value): undefined and '' are falsy
Truthy(v) == v.kind = "string" /\ v.text # ""

DeprecationHeadersAlwaysSunset(metadata, headers) ==
  LET h1 == MapSet(headers, "Deprecation", "true")
      h2 == MapSet(h1, "X-API-Deprecated-Since", metadata.since)
      h3 == MapSet(h2, "Sunset", TemplateString(metadata.sunsetDate))
      h4 == IF Truthy(metadata.alternativeEndpoint)
              THEN MapSet(h3, "Link",
                     "<" \o metadata.alternativeEndpoint.text \o ">; rel=\"alternate\"")
              ELSE h3
  IN MapSet(h4, "X-API-Deprecation-Info",
       "This endpoint is deprecated. Please check the documentation for alternatives.")

\* the callback of tap (lines 44-65): the response headers after it
DeprecationHeaders(metadata, headers) ==
  LET h1 == MapSet(headers, "Deprecation", "true")
      h2 == MapSet(h1, "X-API-Deprecated-Since", metadata.since)
      h3 == IF Truthy(metadata.sunsetDate)
              THEN MapSet(h2, "Sunset", metadata.sunsetDate.text)
              ELSE h2
      h4 == IF Truthy(metadata.alternativeEndpoint)
              THEN MapSet(h3, "Link",
                     "<" \o metadata.alternativeEndpoint.text \o ">; rel=\"alternate\"")
              ELSE h3
  IN MapSet(h4, "X-API-Deprecation-Info",
       "This endpoint is deprecated. Please check the documentation for alternatives.")

\* no request is inside the interceptor
NoIntercept ==
  [pc |-> "idle", handlerMetadata |-> NoMetadata, classMetadata |-> NoMetadata,
   tapped |-> FALSE, emitted |-> FALSE, headers |-> EmptyMap]

\* intercept (lines 31-66) up to its return: the metadata is read, and the
\* handler's stream is returned as it is or piped through tap; the response
\* of the new request has no header yet
Intercept(handlerMetadata, classMetadata) ==
  /\ deprecation.pc # "handling"
  /\ deprecation' =
       [pc |-> "handling",
        handlerMetadata |-> handlerMetadata,
        classMetadata |-> classMetadata,
        tapped |-> GetAllAndOverride(handlerMetadata, classMetadata).present,
        emitted |-> FALSE,
        headers |-> EmptyMap]
  /\ UNCHANGED <<rateVars, versionCall, admitted, verifier, webhooks>>

\* the handler's stream emits a value: tap runs its callback when it is piped
HandlerEmits ==
  /\ deprecation.pc = "handling"
  /\ deprecation' =
       [deprecation EXCEPT
          !.emitted = TRUE,
          !.headers =
            IF deprecation.tapped
              THEN DeprecationHeaders(
                     GetAllAndOverride(deprecation.handlerMetadata,
                                       deprecation.classMetadata), @)
              ELSE @]
  /\ UNCHANGED <<rateVars, versionCall, admitted, verifier, webhooks>>

\* the handler's stream completes, with or without a value
HandlerCompletes ==
  /\ deprecation.pc = "handling"
  /\ deprecation' = [deprecation EXCEPT !.pc = "completed"]
  /\ UNCHANGED <<rateVars, versionCall, admitted, verifier, webhooks>>

\* the handler's stream fails: tap has no error callback
HandlerErrors ==
  /\ deprecation.pc = "handling"
  /\ deprecation' = [deprecation EXCEPT !.pc = "errored"]
  /\ UNCHANGED <<rateVars, versionCall, admitted, verifier, webhooks>>

\* -------------------------------------------------------- VerifyCertificate
\* what the serial field or the ?serial= parameter can hold
Serials == {"", "  ", "SN-1", " SN-1 ", "SN-2"}

\* String.prototype.trim on those
Trim(text) ==
  CASE text = "  " -> ""
    [] text = " SN-1 " -> "SN-1"
    [] OTHER -> text

\* what certificateApi.verify(serialNumber) resolves with
VerificationResults(serialNumber) ==
  {[isValid |-> TRUE, message |-> "", serialNumber |-> serialNumber],
   [isValid |-> FALSE, message |-> "Certificate revoked", serialNumber |-> serialNumber],
   [isValid |-> FALSE, message |-> "", serialNumber |-> serialNumber]}

NoResult == [isValid |-> FALSE, message |-> "null", serialNumber |-> ""]

\* the component after its first render (lines 14-22); inFlight counts the
\* certificateApi.verify calls not yet settled, dropped and settled are history
\* and calling is the serial number of the last one made
Mounted ==
  [serial |-> "", loading |-> FALSE, result |-> NoResult, error |-> "",
   isVerifying |-> FALSE, inFlight |-> 0, calling |-> "", dropped |-> FALSE,
   settled |-> FALSE]

HandleVerifyUnguarded(v, serialToVerify) ==
  IF Trim(serialToVerify) = ""
    THEN [v EXCEPT !.loading = FALSE, !.result = NoResult,
                   !.error = "Please enter a certificate serial number."]
    ELSE [v EXCEPT !.isVerifying = TRUE, !.loading = TRUE, !.result = NoResult,
                   !.error = "", !.inFlight = @ + 1,
                     !.calling = Trim(serialToVerify)]

\* handleVerify up to its await (lines 24-50)
HandleVerify(v, serialToVerify) ==
  IF Trim(serialToVerify) = ""
    THEN [v EXCEPT !.loading = FALSE, !.result = NoResult,
                   !.error = "Please enter a certificate serial number."]
    ELSE IF v.isVerifying
      THEN [v EXCEPT !.dropped = TRUE]
      ELSE [v EXCEPT !.isVerifying = TRUE, !.loading = TRUE, !.result = NoResult,
                     !.error = "", !.inFlight = @ + 1,
                     !.calling = Trim(serialToVerify)]

\* the serial field is edited, or filled by the QR scanner (line 91)
SetSerial(text) ==
  /\ verifier.serial # text
  /\ verifier' = [verifier EXCEPT !.serial = text]
  /\ UNCHANGED <<rateVars, versionCall, deprecation, admitted, webhooks>>

\* handleSubmit (lines 110-115)
HandleSubmit ==
  /\ verifier.inFlight < MaxInFlight
  /\ verifier' = IF Trim(verifier.serial) # ""
                   THEN HandleVerify(verifier, Trim(verifier.serial))
                   ELSE verifier
  /\ UNCHANGED <<rateVars, versionCall, deprecation, admitted, webhooks>>

\* the effect on searchParams (lines 68-74); "" is a URL without ?serial=
AutoVerify(serialParam) ==
  /\ verifier.inFlight < MaxInFlight
  /\ verifier' = IF Trim(serialParam) # ""
                   THEN HandleVerify([verifier EXCEPT !.serial = Trim(serialParam)],
                                     Trim(serialParam))
                   ELSE verifier
  /\ UNCHANGED <<rateVars, versionCall, deprecation, admitted, webhooks>>

\* certificateApi.verify resolves: lines 51-55, then finally
VerifyResolves(result) ==
  /\ verifier.inFlight > 0
  /\ verifier' = [verifier EXCEPT
                    !.loading = FALSE,
                    !.result = result,
                    !.error = IF result.isValid THEN ""
                              ELSE IF result.message # "" THEN result.message
                              ELSE "Verification failed",
                    !.isVerifying = FALSE,
                    !.inFlight = @ - 1,
                    !.settled = TRUE]
  /\ UNCHANGED <<rateVars, versionCall, deprecation, admitted, webhooks>>

\* certificateApi.verify rejects: lines 56-61, then finally
VerifyRejects ==
  /\ verifier.inFlight > 0
  /\ verifier' = [verifier EXCEPT
                    !.loading = FALSE,
                    !.result = NoResult,
                    !.error = "An unexpected error occurred. Please try again.",
                    !.isVerifying = FALSE,
                    !.inFlight = @ - 1,
                    !.settled = TRUE]
  /\ UNCHANGED <<rateVars, versionCall, deprecation, admitted, webhooks>>

\* ---------------------------------------------------------- WebhooksService
\* WebhookEvent values an event is triggered with
WebhookEvents == {"certificate.issued", "certificate.revoked"}

\* the ids of the rows of webhook_subscriptions
SubscriptionIds == {"s1", "s2", "s3"}

\* the issuers that own subscriptions
WebhookIssuers == {"i1", "i2"}

\* the payload handed to triggerEvent
Payloads == {"p1"}

\* a row of webhook_subscriptions, as far as triggerEvent reads it
WebhookSubscription ==
  [issuerId : WebhookIssuers, isActive : BOOLEAN,
   events : {{}, {"certificate.issued"},
             {"certificate.issued", "certificate.revoked"}}]

\* no triggerEvent call was made yet
NoTrigger ==
  [pc |-> "idle", event |-> "", issuerId |-> "", payload |-> "",
   relevantSubs |-> <<>>, next |-> 0, base |-> 0, calls |-> 0]

\* an empty table and an empty queue
NoWebhooks == [subscriptions |-> EmptyMap, queue |-> <<>>, call |-> NoTrigger]

\* the orders in which a find without ORDER BY can return a set of rows
Orders(rows) ==
  {order \in [1..Cardinality(rows) -> rows] :
     \A a, b \in 1..Cardinality(rows) : order[a] = order[b] => a = b}

\* subscriptionRepository.find({ where: { issuerId, isActive: true } })
FindSubscriptions(subscriptions, issuerId) ==
  {id \in DOMAIN subscriptions :
     /\ subscriptions[id].issuerId = issuerId
     /\ subscriptions[id].isActive}

\* subscriptions.filter((sub) => sub.events.includes(event)), but on every
\* row of the issuer
RelevantSubsOfInactive(subscriptions, event, issuerId) ==
  {id \in DOMAIN subscriptions :
     /\ subscriptions[id].issuerId = issuerId
     /\ event \in subscriptions[id].events}

\* subscriptions.filter((sub) => sub.events.includes(event))
RelevantSubs(subscriptions, event, issuerId) ==
  {id \in FindSubscriptions(subscriptions, issuerId) :
     event \in subscriptions[id].events}

\* the job triggerEventForSubscription hands to webhookQueue.add
DeliverJob(subscriptionId, event, payload) ==
  [name |-> "deliver", subscriptionId |-> subscriptionId, event |-> event,
   payload |-> payload, attempt |-> 1]

\* triggerEvent up to its first webhookQueue.add: the find, the filter, and
\* the end of the call when no subscription is relevant
TriggerEvent(event, issuerId, payload) ==
  /\ webhooks.call.pc # "adding"
  /\ webhooks.call.calls < MaxTriggers
  /\ \E order \in Orders(RelevantSubs(webhooks.subscriptions, event, issuerId)) :
       webhooks' = [webhooks EXCEPT
                      !.call = [pc |-> IF Len(order) = 0 THEN "done" ELSE "adding",
                                event |-> event, issuerId |-> issuerId,
                                payload |-> payload, relevantSubs |-> order,
                                next |-> 1, base |-> Len(webhooks.queue),
                                calls |-> @.calls + 1]]
  /\ UNCHANGED <<rateVars, versionCall, deprecation, admitted, verifier>>

\* webhookQueue.add rejects: the await throws out of the loop and out of
\* triggerEvent
DeliverAddRejects ==
  /\ webhooks.call.pc = "adding"
  /\ webhooks' = [webhooks EXCEPT !.call.pc = "failed"]
  /\ UNCHANGED <<rateVars, versionCall, deprecation, admitted, verifier>>

\* webhookQueue.add resolves: the job is on the queue and the loop goes on
DeliverAddResolves ==
  /\ webhooks.call.pc = "adding"
  /\ LET c == webhooks.call
     IN webhooks' = [webhooks EXCEPT
                       !.queue = Append(@, DeliverJob(c.relevantSubs[c.next],
                                                      c.event, c.payload)),
                       !.call.pc = IF c.next = Len(c.relevantSubs)
                                   THEN "done" ELSE "adding",
                       !.call.next = @ + 1]
  /\ UNCHANGED <<rateVars, versionCall, deprecation, admitted, verifier>>

\* ------------------------------------------------------------ environment
\* Date.now() advances
Tick ==
  /\ now < MaxTime
  /\ now' = now + 1
  /\ UNCHANGED <<outside, windowMs, freeLimit, paidLimit, usage, issuerCache, issuers,
                 req, win, lastOp, response>>

\* the issuer row is updated outside the service (tier change, deactivation,
\* a new API key)
UpdateIssuer(i, tier, active, apiKeyHash) ==
  /\ issuers[i] # [apiKeyHash |-> apiKeyHash, isActive |-> active, tier |-> tier]
  /\ issuers' = [issuers EXCEPT ![i] = [apiKeyHash |-> apiKeyHash,
                                        isActive |-> active, tier |-> tier]]
  /\ UNCHANGED <<outside, windowMs, freeLimit, paidLimit, now, usage, issuerCache, req,
                 win, lastOp, response>>

\* ------------------------------------------------------------------- spec
\* what the constructor leaves, apart from the configuration; the issuer row of
\* the one issuer of the model is in the table with states drawn from rows
InitState(rows) ==
  /\ now = 0
  /\ usage = EmptyMap
  /\ issuerCache = EmptyMap
  /\ issuers \in [Issuers -> rows]
  /\ req = [r \in Requests |-> IdleReq]
  /\ win = EmptyMap
  /\ lastOp = NoOp
  /\ response = NoResponse
  /\ versionCall = NoCall
  /\ deprecation = NoIntercept
  /\ admitted = EmptyMap
  /\ verifier = Mounted
  /\ webhooks = NoWebhooks

IssuerRows(actives) ==
  [apiKeyHash : {Sha256("k1")}, isActive : actives, tier : {FREE, PAID, UNSET}]

\* the rows the gate is run against: an active issuer without a tier, an active
\* PAID one, and a deactivated one
GateRows ==
  {[apiKeyHash |-> Sha256("k1"), isActive |-> TRUE, tier |-> UNSET],
   [apiKeyHash |-> Sha256("k1"), isActive |-> TRUE, tier |-> PAID],
   [apiKeyHash |-> Sha256("k1"), isActive |-> FALSE, tier |-> FREE]}

\* the constructor (lines 184-189) configured with one request per window for
\* FREE issuers, in front of an issuer table that does not change
Init ==
  /\ windowMs = MaxWindowMs
  /\ freeLimit = 1
  /\ paidLimit = MaxGatePaidLimit
  /\ InitState(GateRows)

Next ==
  \/ \E r \in Requests, header \in XApiKeyHeaders, rt \in Routes :
       GuardStart(r, ApiKeyOf(header), rt)
  \/ \E r \in Requests : FindOneReturn(r)
  \/ \E r \in Requests : GuardNoKey(r)
  \/ \E r \in Requests : GuardResume(r)
  \/ Tick

\* the request gate in front of the service: every consume comes from a guard
Spec == Init /\ [][Next]_vars

\* the gate in front of a store whose lookups can fail; the one issuer is
\* active and has no tier
OutageRows == {[apiKeyHash |-> Sha256("k1"), isActive |-> TRUE, tier |-> UNSET]}

InitOutage ==
  /\ windowMs = MaxWindowMs
  /\ freeLimit = 1
  /\ paidLimit = MaxGatePaidLimit
  /\ InitState(OutageRows)

NextOutage ==
  \/ \E r \in Requests, header \in XApiKeyHeaders, rt \in Routes :
       GuardStart(r, ApiKeyOf(header), rt)
  \/ \E r \in Requests : FindOneReturn(r)
  \/ \E r \in Requests : FindOneFail(r)
  \/ \E r \in Requests : GuardResume(r)
  \/ Tick

OutageSpec == InitOutage /\ [][NextOutage]_vars

\* the service called directly, by any caller with any tier
InitConsume ==
  /\ windowMs \in 1..MaxWindowMs
  /\ freeLimit \in 1..MaxFreeLimit
  /\ paidLimit \in 1..MaxPaidLimit
  /\ InitState(IssuerRows({TRUE}))

NextConsume ==
  \/ \E i \in Issuers, t \in IssuerTier, rt \in Routes : DirectConsume(i, t, rt)
  \/ Tick

ConsumeSpec == InitConsume /\ [][NextConsume]_vars

\* Number(this.configService.get(...)) || fallback (lines 184-189): a value
\* that is absent or not numeric gives NaN, and NaN and 0 give the fallback;
\* every other number, a negative one included, is kept
Configured(raw, fallback) ==
  IF raw.kind = "number" /\ raw.value # 0 THEN raw.value ELSE fallback

\* values of RATE_LIMIT_WINDOW_MS, in milliseconds
WindowConfigs ==
  {[kind |-> "number", value |-> -MsPerUnit]}
    \cup {[kind |-> "number", value |-> w * MsPerUnit] : w \in 1..MaxWindowMs}

\* values of RATE_LIMIT_FREE_PER_WINDOW
LimitConfigs ==
  {[kind |-> "number", value |-> -1]}
    \cup {[kind |-> "number", value |-> l] : l \in 1..MaxFreeLimit}

\* the service constructed from a configured window and a configured free
\* limit, then consumed from
InitConfigured ==
  /\ \E raw \in WindowConfigs : windowMs = Configured(raw, 60000) \div MsPerUnit
  /\ \E raw \in LimitConfigs : freeLimit = Configured(raw, 60)
  /\ paidLimit = MaxPaidLimit
  /\ InitState(IssuerRows({TRUE}))

NextConfigured ==
  \/ \E i \in Issuers, t \in IssuerTier, rt \in Routes : DirectConsume(i, t, rt)
  \/ Tick

ConfiguredSpec == InitConfigured /\ [][NextConfigured]_vars

\* the buckets of two issuers and two routes side by side: the guard consumes
\* for the issuer of the directory, other callers for the other pairs; the
\* clock moves while the guard answers a denial
OtherPairs ==
  (OtherIssuers \X Routes) \cup (Issuers \X OtherRoutes)

InitFrame ==
  /\ windowMs = MaxWindowMs
  /\ freeLimit = 1
  /\ paidLimit = MaxGatePaidLimit
  /\ InitState(OutageRows)

NextFrame ==
  \/ \E rt \in Routes : GuardStart(1, "k1", rt)
  \/ FindOneReturn(1)
  \/ GuardResume(1)
  \/ \E p \in OtherPairs : DirectConsume(p[1], FREE, p[2])
  \/ GetUsage

FrameSpec == InitFrame /\ [][NextFrame]_vars

\* one tier consuming as fast and as late as it can, every admission logged
InitBurst ==
  /\ windowMs \in 1..MaxWindowMs
  /\ freeLimit \in 1..MaxFreeLimit
  /\ paidLimit = MaxPaidLimit
  /\ InitState(IssuerRows({TRUE}))

NextBurst ==
  \/ \E i \in Issuers, rt \in Routes : LoggedConsume(i, FREE, rt)
  \/ Tick

BurstSpec == InitBurst /\ [][NextBurst]_vars

\* one bucket consumed under either tier, and the usage summary read
InitSummary ==
  /\ windowMs = MaxWindowMs
  /\ freeLimit = 1
  /\ paidLimit = MaxGatePaidLimit
  /\ InitState(IssuerRows({TRUE}))

NextSummary ==
  \/ \E i \in Issuers, t \in IssuerTier, rt \in Routes : DirectConsume(i, t, rt)
  \/ GetUsage
  \/ Tick

SummarySpec == InitSummary /\ [][NextSummary]_vars

\* the VerifyCertificate page used in every order
InitVerifier ==
  /\ windowMs = MaxWindowMs
  /\ freeLimit = MaxFreeLimit
  /\ paidLimit = MaxPaidLimit
  /\ InitState(OutageRows)

NextVerifier ==
  \/ \E text \in Serials : SetSerial(text)
  \/ HandleSubmit
  \/ \E serialParam \in Serials : AutoVerify(serialParam)
  \/ \E result \in VerificationResults(verifier.calling) : VerifyResolves(result)
  \/ VerifyRejects

VerifierSpec == InitVerifier /\ [][NextVerifier]_vars

\* triggerEvent called on any table of three subscriptions, in front of a
\* queue that accepts or refuses each job
InitCore(rows) ==
  /\ now = 0
  /\ usage = EmptyMap
  /\ issuerCache = EmptyMap
  /\ issuers \in [Issuers -> rows]
  /\ req = [r \in Requests |-> IdleReq]
  /\ win = EmptyMap
  /\ lastOp = NoOp
  /\ response = NoResponse
  /\ versionCall = NoCall
  /\ deprecation = NoIntercept
  /\ admitted = EmptyMap
  /\ verifier = Mounted

InitWebhook ==
  /\ windowMs = MaxWindowMs
  /\ freeLimit = MaxFreeLimit
  /\ paidLimit = MaxPaidLimit
  /\ InitCore(OutageRows)
  /\ \E subscriptions \in [SubscriptionIds -> WebhookSubscription] :
       webhooks = [NoWebhooks EXCEPT !.subscriptions = subscriptions]

NextWebhook ==
  \/ \E event \in WebhookEvents, issuerId \in WebhookIssuers, payload \in Payloads :
       TriggerEvent(event, issuerId, payload)
  \/ DeliverAddResolves
  \/ DeliverAddRejects

WebhookSpec == InitWebhook /\ [][NextWebhook]_vars

\* the service in front of a queue that accepts a job, refuses it, or leaves it
\* unanswered
InitQueue ==
  /\ windowMs = MaxWindowMs
  /\ freeLimit \in 1..MaxFreeLimit
  /\ paidLimit = MaxPaidLimit
  /\ InitState(IssuerRows({TRUE}))

NextQueue ==
  \/ \E i \in Issuers, t \in IssuerTier, rt \in Routes : DirectConsume(i, t, rt)
  \/ QueueAddResolves
  \/ QueueAddRejects
  \/ Tick

QueueSpec == InitQueue /\ [][NextQueue]_vars

\* every operation on the buckets and around them, one request at a time
InitService ==
  /\ windowMs = MaxWindowMs
  /\ freeLimit = 1
  /\ paidLimit = MaxGatePaidLimit
  /\ InitState(GateRows)

NextService ==
  \/ \E header \in XApiKeyHeaders, rt \in Routes : GuardStart(1, ApiKeyOf(header), rt)
  \/ FindOneReturn(1)
  \/ FindOneFail(1)
  \/ GuardNoKey(1)
  \/ GuardResume(1)
  \/ GetUsage
  \/ QueueAddResolves
  \/ QueueAddRejects
  \/ Tick

ServiceSpec == InitService /\ [][NextService]_vars

\* the guard in front of requests with and without a matched route, one
\* request at a time, for an active issuer without a tier
InitRoute ==
  /\ windowMs = MaxWindowMs
  /\ freeLimit = 1
  /\ paidLimit = MaxGatePaidLimit
  /\ InitState(OutageRows)

NextRoute ==
  \/ \E header \in XApiKeyHeaders, request \in HttpRequests :
       GuardStart(1, ApiKeyOf(header), RoutePath(request))
  \/ FindOneReturn(1)
  \/ GuardResume(1)
  \/ Tick

RouteSpec == InitRoute /\ [][NextRoute]_vars

\* VersionService called with any arguments; the rate limiting stands still
InitVersion ==
  /\ windowMs = MaxWindowMs
  /\ freeLimit = MaxFreeLimit
  /\ paidLimit = MaxPaidLimit
  /\ InitState(OutageRows)

NextVersion ==
  \/ \E f \in VersionArgs, t \in VersionArgs : GetMigrationGuide(f, t)
  \/ GetVersionInfo
  \/ \E v \in VersionArgs : IsVersionSupported(v)
  \/ \E v \in VersionArgs : IsVersionDeprecated(v)

VersionSpec == InitVersion /\ [][NextVersion]_vars

\* one request after another through the DeprecationInterceptor
InitDeprecation ==
  /\ windowMs = MaxWindowMs
  /\ freeLimit = MaxFreeLimit
  /\ paidLimit = MaxPaidLimit
  /\ InitState(OutageRows)

NextDeprecation ==
  \/ \E h \in DeprecationMetadatas \cup {NoMetadata},
        c \in DeprecationMetadatas \cup {NoMetadata} : Intercept(h, c)
  \/ HandlerEmits
  \/ HandlerCompletes
  \/ HandlerErrors

DeprecationSpec == InitDeprecation /\ [][NextDeprecation]_vars

\* the issuer directory: resolveIssuer called concurrently while the issuer
\* table is updated; the limits play no part in it
InitResolve ==
  /\ windowMs = MaxWindowMs
  /\ freeLimit = MaxFreeLimit
  /\ paidLimit = MaxPaidLimit
  /\ InitState(IssuerRows({TRUE}))

NextResolve ==
  \/ \E r \in Requests, k \in ApiKeys : DirectResolve(r, k)
  \/ \E r \in Requests : FindOneReturn(r)
  \/ \E r \in Requests : DirectReturn(r)
  \/ \E i \in Issuers, t \in IssuerTier \cup {UNSET}, a \in BOOLEAN, h \in KeyHashes :
       UpdateIssuer(i, t, a, h)
  \/ Tick

ResolveSpec == InitResolve /\ [][NextResolve]_vars

\* ----------------------------------------------------------------- claims
\* floor(0.8 * limit), written out for the properties
EightyPercent(limit) == (8 * limit) \div 10

\* a consume(i, t, rt) step of the service
ConsumeStep(i, t, rt) == DirectConsume(i, t, rt)

\* C1: with a constant tier, the consumes allowed in one window of a bucket are
\* at most the tier's limit, an allowed consume leaves count <= limit, and a
\* consume that found count >= limit was denied
C1_WindowQuota ==
  /\ \A k \in DOMAIN usage : \A t \in IssuerTier :
       win[k].tiers = {t} => win[k].allowed <= Limit(t)
  /\ (lastOp.op = "consume" /\ lastOp.result.allowed) =>
       /\ usage[lastOp.key].count <= lastOp.result.limit
       /\ usage[lastOp.key].count - 1 < lastOp.result.limit

C1_Witness ==
  \E k \in DOMAIN usage :
    /\ win[k].tiers = {FREE}
    /\ win[k].allowed = freeLimit
    /\ win[k].denied >= 1
    /\ lastOp.op = "consume" /\ ~lastOp.result.allowed

\* C3: once freeLimit FREE consumes were allowed in a window, a further FREE
\* consume in that window is denied with remaining 0, the same limit and
\* resetAt, the bucket is left as it was, and a second denial returns the
\* result of the first
C3_IdempotentDenial ==
  [][\A i \in Issuers, rt \in Routes :
       LET k == BucketKey(i, rt) IN
       ( /\ ConsumeStep(i, FREE, rt)
         /\ k \in DOMAIN usage
         /\ now - usage[k].windowStart < windowMs
         /\ win[k].tiers = {FREE}
         /\ win[k].allowed = freeLimit )
       => /\ lastOp'.result = [allowed |-> FALSE, limit |-> freeLimit, remaining |-> 0,
                               resetAt |-> usage[k].windowStart + windowMs]
          /\ usage'[k] = usage[k]
          /\ (lastOp.op = "consume" /\ lastOp.key = k /\ ~lastOp.result.allowed)
               => lastOp'.result = lastOp.result]_vars

C3_Witness ==
  \E k \in DOMAIN usage :
    /\ win[k].tiers = {FREE}
    /\ win[k].allowed = freeLimit
    /\ win[k].denied = 2
    /\ usage[k].count = freeLimit
    /\ now > usage[k].windowStart

\* C4: after every allowed consume, whatever tiers were passed in the window,
\* remaining + bucket.count = limit
C4_RemainingPlusCount ==
  (lastOp.op = "consume" /\ lastOp.result.allowed) =>
    lastOp.result.remaining + usage[lastOp.key].count = lastOp.result.limit

C4_Witness ==
  /\ lastOp.op = "consume" /\ lastOp.result.allowed
  /\ win[lastOp.key].tiers = {FREE, PAID}
  /\ lastOp.tier # usage[lastOp.key].tier
  /\ lastOp.result.remaining > 0

C6_LimitOfBucketTier ==
  lastOp.op = "consume" => lastOp.result.limit = Limit(usage[lastOp.key].tier)

\* C6 amended: bucket.tier is written only when the bucket is created or reset,
\* and every consume is judged against, and returns, the limit of the tier
\* passed to that call
C6_LimitOfPassedTier ==
  [][\A i \in Issuers, t \in IssuerTier, rt \in Routes :
       LET k == BucketKey(i, rt) IN
       ConsumeStep(i, t, rt)
       => /\ lastOp'.result.limit = Limit(t)
          /\ usage'[k].tier =
               IF k \in DOMAIN usage /\ now - usage[k].windowStart < windowMs
                 THEN usage[k].tier ELSE t
          /\ lastOp'.result.allowed =
               (IF k \in DOMAIN usage /\ now - usage[k].windowStart < windowMs
                  THEN usage[k].count < Limit(t) ELSE 0 < Limit(t))]_vars

C6_Witness ==
  /\ lastOp.op = "consume" /\ lastOp.result.allowed
  /\ lastOp.tier = PAID /\ usage[lastOp.key].tier = FREE
  /\ usage[lastOp.key].count > freeLimit
  /\ lastOp.result.limit = paidLimit

\* C7: in a window whose consumes all pass FREE the upgrade notification is
\* dispatched once if the count reached floor(0.8 * freeLimit) and not at all
\* otherwise, never by a denied consume, and never by a PAID consume
C7_UpgradeOncePerWindow ==
  /\ \A k \in DOMAIN usage :
       /\ win[k].tiers = {FREE} =>
            win[k].upgrades =
              IF win[k].allowed >= 1 /\ win[k].allowed >= EightyPercent(freeLimit)
                THEN 1 ELSE 0
       /\ win[k].tiers = {PAID} => win[k].upgrades = 0
  /\ lastOp.op = "consume" =>
       (lastOp.upgrade => lastOp.tier = FREE /\ lastOp.result.allowed)

C7_Witness ==
  \E k \in DOMAIN usage :
    /\ win[k].tiers = {FREE}
    /\ usage[k].windowStart > 0
    /\ freeLimit = 3
    /\ win[k].allowed = 3
    /\ win[k].denied >= 1
    /\ win[k].upgrades = 1

\* C8 as stated: the dispatching consume is the one that makes count equal to
\* floor(0.8 * limit), and the job carries that count
C8_DispatchAtThreshold ==
  (lastOp.op = "consume" /\ lastOp.upgrade) =>
    /\ usage[lastOp.key].count = EightyPercent(lastOp.result.limit)
    /\ lastOp.jobCount = EightyPercent(lastOp.result.limit)

\* C8 amended: the job carries the count the dispatching FREE consume produced,
\* which is at least floor(0.8 * limit), and equal to it when limit >= 2 and
\* every consume of the window passed FREE
C8_DispatchFromThreshold ==
  (lastOp.op = "consume" /\ lastOp.upgrade) =>
    /\ lastOp.tier = FREE /\ lastOp.result.allowed
    /\ lastOp.result.limit = freeLimit
    /\ lastOp.jobCount = usage[lastOp.key].count
    /\ lastOp.jobCount >= EightyPercent(freeLimit)
    /\ (win[lastOp.key].tiers = {FREE} /\ freeLimit >= 2) =>
         lastOp.jobCount = EightyPercent(freeLimit)

C8_Witness ==
  /\ lastOp.op = "consume" /\ lastOp.upgrade
  /\ win[lastOp.key].tiers = {FREE, PAID}
  /\ lastOp.jobCount > EightyPercent(freeLimit)
  /\ freeLimit >= 2

\* the smaller of two numbers
Min(a, b) == IF a <= b THEN a ELSE b

\* C2: whatever the interleaving of the requests that pass the guard, the
\* consumes of one window with a constant tier are allowed until the limit is
\* used up and denied from then on: of N consumes min(N, limit) are allowed, so
\* with limit 1 exactly one is allowed and N-1 are denied
C2_OneSlotOneAdmission ==
  \A k \in DOMAIN usage : \A t \in IssuerTier :
    win[k].tiers = {t} =>
      win[k].allowed = Min(win[k].allowed + win[k].denied, Limit(t))

C2_Witness ==
  \E k \in DOMAIN usage :
    /\ win[k].tiers = {FREE} /\ freeLimit = 1
    /\ usage[k].windowStart = now
    /\ win[k].overlap = NumRequests - 1
    /\ win[k].allowed = 1
    /\ win[k].denied = NumRequests - 1
    /\ \A r \in Requests : req[r].pc = "idle"

C10_NeverServeStale ==
  [][/\ \A r \in Requests, k \in ApiKeys :
          ( /\ DirectResolve(r, k)
            /\ k \in DOMAIN issuerCache
            /\ issuerCache[k].cacheUntil <= now )
          => req'[r].pc = "lookup"
     /\ \A r \in Requests :
          FindOneReturn(r)
          => LET rows == {i \in Issuers : /\ issuers[i].isActive
                                          /\ issuers[i].apiKeyHash = Sha256(req[r].apiKey)}
             IN IF rows = {}
                  THEN req'[r].issuer = NullIssuer
                  ELSE \E i \in rows :
                         req'[r].issuer =
                           [id |-> i,
                            tier |-> IF issuers[i].tier = UNSET THEN FREE
                                     ELSE issuers[i].tier]]_vars

C10_Witness ==
  \E r \in Requests :
    /\ req[r].pc = "lookup"
    /\ req[r].apiKey \in DOMAIN issuerCache
    /\ issuerCache[req[r].apiKey].cacheUntil = req[r].started
    /\ \A i \in Issuers : ~issuers[i].isActive \/ issuers[i].tier # issuerCache[req[r].apiKey].tier

\* C11 as stated: every cache entry expires 5 minutes after the moment its
\* lookup resolved and it was stored
C11_UntilFromStore ==
  \A k \in DOMAIN issuerCache :
    issuerCache[k].cacheUntil = issuerCache[k].created + CacheTtl

\* C12 as stated: an identity is returned only if, when the call is made, the
\* store holds an active issuer with the hash of the key, and the tier returned
\* is that issuer's current tier
C12_OnlyCurrentlyActive ==
  [][\A r \in Requests, k \in ApiKeys :
       (DirectResolve(r, k) /\ req'[r].pc = "resolved")
       => \E i \in Issuers :
            /\ issuers[i].isActive
            /\ issuers[i].apiKeyHash = Sha256(k)
            /\ req'[r].issuer =
                 [id |-> i,
                  tier |-> IF issuers[i].tier = UNSET THEN FREE
                           ELSE issuers[i].tier]]_vars

\* C12 amended: an identity comes from a lookup or from a cache entry.  A cache
\* entry is written only by a lookup that finds, when it completes, an active
\* issuer with the hash of the key, and holds that issuer's id and tier of that
\* moment (FREE when unset); a call is answered from the entry only before its
\* cacheUntil, hence less than 5 minutes after that lookup, whatever happened
\* to the issuer since; a lookup answers null unless such an issuer exists
\* when it completes
C12_ActiveWhenLookedUp ==
  [][/\ \A r \in Requests, k \in ApiKeys :
          (DirectResolve(r, k) /\ req'[r].pc = "resolved")
          => /\ k \in DOMAIN issuerCache
             /\ now < issuerCache[k].cacheUntil
             /\ now - issuerCache[k].created < CacheTtl
             /\ req'[r].issuer = [id |-> issuerCache[k].issuerId,
                                  tier |-> issuerCache[k].tier]
     /\ \A k \in DOMAIN issuerCache' :
          (k \notin DOMAIN issuerCache \/ issuerCache'[k] # issuerCache[k])
          => \E i \in Issuers :
               /\ issuers[i].isActive
               /\ issuers[i].apiKeyHash = Sha256(k)
               /\ issuerCache'[k].issuerId = i
               /\ issuerCache'[k].tier =
                    (IF issuers[i].tier = UNSET THEN FREE ELSE issuers[i].tier)
               /\ issuerCache'[k].created = now
     /\ \A r \in Requests :
          ( /\ FindOneReturn(r)
            /\ \A i \in Issuers : \/ ~issuers[i].isActive
                                   \/ issuers[i].apiKeyHash # Sha256(req[r].apiKey) )
          => req'[r].issuer = NullIssuer]_vars

\* a call answered from the cache while no active issuer carries the key
C12_Witness ==
  \E r \in Requests :
    /\ req[r].pc = "resolved" /\ req[r].hit
    /\ req[r].issuer # NullIssuer
    /\ \A i \in Issuers : \/ ~issuers[i].isActive
                           \/ issuers[i].apiKeyHash # Sha256(req[r].apiKey)

\* C13: a canActivate call without a usable x-api-key header returns true and
\* leaves the buckets, the cache and the calls in flight as they were: no
\* consume, no lookup started, no header set on the response
C13_NoKeyTouchesNothing ==
  [][\A r \in Requests :
       GuardNoKey(r)
       => /\ response'.outcome = "true"
          /\ DOMAIN response'.headers = {}
          /\ usage' = usage
          /\ issuerCache' = issuerCache
          /\ req' = req
          /\ lastOp'.op = "none"]_vars

C13_Witness ==
  /\ response.outcome = "true" /\ DOMAIN response.headers = {}
  /\ lastOp.op = "none"
  /\ "k1" \in DOMAIN issuerCache
  /\ \E k \in DOMAIN usage : usage[k].count >= 1
  /\ \E r \in Requests : req[r].pc = "lookup"

\* C14: when resolveIssuer returned null the guard throws Unauthorized without
\* calling consume: no bucket is created or changed, no header is set, and the
\* outcome is not the 429 error
C14_NotFoundIsUnauthorized ==
  [][\A r \in Requests :
       (GuardResume(r) /\ req[r].pc = "resolved" /\ req[r].issuer = NullIssuer)
       => /\ response'.outcome = "UnauthorizedException"
          /\ response'.outcome # "TooManyRequests"
          /\ DOMAIN response'.headers = {}
          /\ usage' = usage
          /\ lastOp'.op = "none"]_vars

C14_Witness ==
  /\ response.outcome = "UnauthorizedException"
  /\ lastOp.op = "none"
  /\ usage = EmptyMap
  /\ \A i \in Issuers : ~issuers[i].isActive

\* C15: when findOne rejects, resolveIssuer is rejected with the error instead
\* of resolving to null and the cache is left as it was; the guard is then
\* rejected with that error, not Unauthorized and not true, and no bucket is
\* touched
C15_LookupErrorPropagates ==
  [][\A r \in Requests :
       /\ FindOneFail(r)
            => /\ req'[r].pc = "failed"
               /\ issuerCache' = issuerCache
               /\ usage' = usage
       /\ (GuardResume(r) /\ req[r].pc = "failed")
            => /\ response'.outcome = "Error"
               /\ DOMAIN response'.headers = {}
               /\ issuerCache' = issuerCache
               /\ usage' = usage
               /\ lastOp'.op = "none"]_vars

\* the lookup that failed was made for a key whose entry had expired
C15_Witness ==
  /\ response.outcome = "Error"
  /\ "k1" \in DOMAIN issuerCache
  /\ issuerCache["k1"].cacheUntil <= now
  /\ \E k \in DOMAIN usage : usage[k].count >= 1

\* C16: for a resolved issuer the guard sets X-RateLimit-Limit, -Remaining
\* (>= 0) and -Reset (whole seconds of resetAt) from the result of consume,
\* sets Retry-After exactly when the result is a denial, and ends with the 429
\* error on a denial and with true otherwise
C16_HeadersFromResult ==
  [][\A r \in Requests :
       (GuardResume(r) /\ req[r].pc = "resolved" /\ req[r].issuer # NullIssuer)
       => /\ lastOp'.op = "consume"
          /\ {"X-RateLimit-Limit", "X-RateLimit-Remaining", "X-RateLimit-Reset"}
               \subseteq DOMAIN response'.headers
          /\ response'.headers["X-RateLimit-Limit"] = ToString(lastOp'.result.limit)
          /\ response'.headers["X-RateLimit-Remaining"] =
               ToString(lastOp'.result.remaining)
          /\ lastOp'.result.remaining >= 0
          /\ response'.headers["X-RateLimit-Reset"] =
               ToString((lastOp'.result.resetAt * MsPerUnit) \div 1000)
          /\ ("Retry-After" \in DOMAIN response'.headers) = ~lastOp'.result.allowed
          /\ response'.outcome =
               (IF lastOp'.result.allowed THEN "true" ELSE "TooManyRequests")]_vars

C16_Witness ==
  /\ response.outcome = "TooManyRequests"
  /\ lastOp.op = "consume" /\ ~lastOp.result.allowed
  /\ response.headers["X-RateLimit-Remaining"] = "0"
  /\ response.headers["X-RateLimit-Reset"] = "300"
  /\ "Retry-After" \in DOMAIN response.headers

\* C17: the Retry-After of a denied request is a whole number of seconds, at
\* least 1 and at most ceil(windowMs / 1000), whatever the time between the
\* clock read of consume and the one of the guard
C17_RetryAfterRange ==
  response.outcome = "TooManyRequests" =>
    /\ response.retryAfterSeconds \in Int
    /\ 1 <= response.retryAfterSeconds
    /\ response.retryAfterSeconds <= -((-(windowMs * MsPerUnit)) \div 1000)
    /\ response.headers["Retry-After"] = ToString(response.retryAfterSeconds)

\* a whole window passed before the guard read the clock
C17_Witness ==
  /\ response.outcome = "TooManyRequests"
  /\ response.retryAfterSeconds = 1
  /\ lastOp.op = "consume" /\ lastOp.result.resetAt <= now

\* C18: consume returns with the dispatcher's promise still pending, and
\* whether the queue then accepts the job, refuses it or never answers, the
\* result consume returned and the buckets stay what they were
C18_DispatchNeverDecides ==
  [][/\ \A i \in Issuers, t \in IssuerTier, rt \in Routes :
          ConsumeStep(i, t, rt)
          => /\ (lastOp'.exceeded \/ lastOp'.upgrade) = (lastOp'.job.status = "pending")
             /\ ~lastOp'.result.allowed => lastOp'.job.type = "rate-limit-exceeded"
     /\ (QueueAddResolves \/ QueueAddRejects)
          => /\ usage' = usage
             /\ win' = win
             /\ lastOp'.result = lastOp.result
             /\ lastOp'.key = lastOp.key]_vars

\* the queue refused the job of a denial
C18_Witness ==
  /\ lastOp.op = "consume" /\ ~lastOp.result.allowed
  /\ lastOp.job.status = "rejected"
  /\ usage[lastOp.key].count = lastOp.result.limit

\* C19 as stated: a refused enqueue is logged by the dispatcher and leaves no
\* unhandled promise rejection
C19_RejectionHandled ==
  lastOp.job.status = "rejected" => lastOp.job.logged /\ ~lastOp.job.unhandled

\* a step in which consume runs on the bucket k, called directly or by the guard
ConsumeOn(k) ==
  \E i \in Issuers, t \in IssuerTier, rt \in Routes :
    /\ BucketKey(i, rt) = k
    /\ \/ DirectConsume(i, t, rt)
       \/ \E r \in Requests : /\ GuardResume(r)
                               /\ req[r].pc = "resolved"
                               /\ req[r].issuer = [id |-> i, tier |-> t]
                               /\ req[r].route = rt

\* C20: a bucket stays in the map, and its count changes only in a consume on
\* its key: by +1 when the consume is allowed in the running window, not at
\* all when it is denied, and down (to 1, the consume being counted) only when
\* the consume finds now - windowStart >= windowMs; every other step (a
\* lookup, a guard that rejects or passes without a key, getUsageSummary, an
\* answer of the queue, the clock) leaves every bucket as it was
C20_CountOnlyByConsume ==
  [][\A k \in DOMAIN usage :
       /\ k \in DOMAIN usage'
       /\ ~ConsumeOn(k) => usage'[k] = usage[k]
       /\ ConsumeOn(k) =>
            usage'[k].count =
              IF now - usage[k].windowStart >= windowMs THEN 1
              ELSE IF lastOp'.result.allowed THEN usage[k].count + 1
              ELSE usage[k].count
       /\ usage'[k].count < usage[k].count =>
            (ConsumeOn(k) /\ now - usage[k].windowStart >= windowMs)]_vars

\* the summary of a bucket a PAID issuer saturated in a window opened by a
\* rollover, a denial behind it
C20_Witness ==
  /\ response.outcome = "usage"
  /\ \E k \in DOMAIN usage :
       /\ usage[k].windowStart > 0
       /\ usage[k].count = paidLimit
       /\ win[k].denied >= 1
       /\ \E row \in response.data : row.count = usage[k].count

\* C21 as stated: getUsageSummary returns one tuple for every bucket whose
\* window has not expired and none for the others, with the issuerId and the
\* routeKey that were passed to consume for the bucket, the bucket's count, and
\* resetAt = windowStart + windowMs
C21_SummaryNamesTheRoute ==
  [][GetUsage
     => {[issuerId |-> row.issuerId, route |-> row.route, count |-> row.count,
          resetAt |-> row.resetAt] : row \in response'.data}
        = {[issuerId |-> p[1], route |-> p[2],
            count |-> usage[BucketKey(p[1], p[2])].count,
            resetAt |-> usage[BucketKey(p[1], p[2])].windowStart + windowMs] :
             p \in {q \in Issuers \X Routes :
                      /\ BucketKey(q[1], q[2]) \in DOMAIN usage
                      /\ now - usage[BucketKey(q[1], q[2])].windowStart < windowMs}}]_vars

C23_GuideOrDefault ==
  versionCall.op = "getMigrationGuide" =>
    LET from == versionCall.args[1]
        to == versionCall.args[2]
        guide == versionCall.result
    IN IF from = [kind |-> "string", text |-> "1"] /\ to = [kind |-> "string", text |-> "2"]
         THEN /\ guide.fromVersion = [kind |-> "string", text |-> "1"]
              /\ guide.toVersion = [kind |-> "string", text |-> "2"]
              /\ Len(guide.migrationSteps) > 0
         ELSE /\ guide.fromVersion = from
              /\ guide.toVersion = to
              /\ guide.breakingChanges = <<>>
              /\ guide.newFeatures = <<>>
              /\ guide.migrationSteps =
                   <<"No migration guide available for this version pair">>

\* the pair of the unit test, in the order that has no guide
C23_Witness ==
  /\ versionCall.op = "getMigrationGuide"
  /\ versionCall.args = <<[kind |-> "string", text |-> "2"],
                          [kind |-> "string", text |-> "1"]>>
  /\ Len(versionCall.result.migrationSteps) = 1

\* sunsetDate or alternativeEndpoint is given: it is a non-empty string
\* (the decorator stores undefined for an argument that was left out)
Given(v) == v \notin {[kind |-> "undefined", text |-> ""], [kind |-> "string", text |-> ""]}

\* C24: without 'deprecated' metadata on the handler and on its class the
\* interceptor sets no header; with the metadata, once the handler has emitted
\* a value, Deprecation is 'true', X-API-Deprecated-Since is `since`,
\* X-API-Deprecation-Info is set, Sunset is set iff sunsetDate is given, and
\* Link is '<alternativeEndpoint>; rel="alternate"' iff alternativeEndpoint is
\* given
C24_DeprecationHeaders ==
  LET h == deprecation.handlerMetadata
      c == deprecation.classMetadata
      m == IF h.present THEN h ELSE c
      headers == deprecation.headers
  IN /\ (~h.present /\ ~c.present) => DOMAIN headers = {}
     /\ ((h.present \/ c.present) /\ deprecation.emitted) =>
          /\ "Deprecation" \in DOMAIN headers /\ headers["Deprecation"] = "true"
          /\ "X-API-Deprecated-Since" \in DOMAIN headers
          /\ headers["X-API-Deprecated-Since"] = m.since
          /\ "X-API-Deprecation-Info" \in DOMAIN headers
          /\ ("Sunset" \in DOMAIN headers) <=> Given(m.sunsetDate)
          /\ ("Link" \in DOMAIN headers) <=> Given(m.alternativeEndpoint)
          /\ Given(m.sunsetDate) => headers["Sunset"] = m.sunsetDate.text
          /\ Given(m.alternativeEndpoint) =>
               headers["Link"] = "<" \o m.alternativeEndpoint.text \o ">; rel=\"alternate\""

\* a deprecated handler with an alternative and no sunset date has answered
C24_Witness ==
  /\ deprecation.pc = "completed"
  /\ deprecation.emitted
  /\ deprecation.handlerMetadata.present
  /\ deprecation.handlerMetadata.sunsetDate.kind = "undefined"
  /\ "Link" \in DOMAIN deprecation.headers
  /\ "Sunset" \notin DOMAIN deprecation.headers

\* C25: a consume that returns allowed = false dispatches one
\* rate-limit-exceeded job with the issuerId, the tier, the route, the time the
\* consume read, the limit and the count of the bucket, which the consume left
\* as it was; the exceeded jobs of a window are as many as its denied
\* consumes; a consume that returns allowed = true dispatches no such job
C25_OneExceededJobPerDenial ==
  [][\A i \in Issuers, t \in IssuerTier, rt \in Routes :
       ConsumeStep(i, t, rt) =>
         LET k == BucketKey(i, rt)
             job == lastOp'.job
         IN /\ win'[k].exceededJobs = win'[k].denied
            /\ IF lastOp'.result.allowed
                 THEN /\ job.type # "rate-limit-exceeded"
                      /\ k \in DOMAIN win /\ ~lastOp'.rolled
                           => win'[k].exceededJobs = win[k].exceededJobs
                 ELSE /\ job.type = "rate-limit-exceeded"
                      /\ job.payload =
                           [issuerId |-> i, tier |-> t, route |-> rt,
                            timestamp |-> now, limit |-> Limit(t),
                            count |-> usage'[k].count]
                      /\ k \in DOMAIN usage /\ ~lastOp'.rolled
                           => usage'[k].count = usage[k].count
                      /\ k \in DOMAIN win /\ ~lastOp'.rolled
                           => win'[k].exceededJobs = win[k].exceededJobs + 1]_vars

\* the second denial of a window, later than the first
C25_Witness ==
  /\ lastOp.op = "consume" /\ ~lastOp.result.allowed
  /\ lastOp.job.type = "rate-limit-exceeded"
  /\ win[lastOp.key].exceededJobs = 2
  /\ lastOp.job.payload.timestamp > usage[lastOp.key].windowStart

\* C26: for a limit >= 1, a consume on a bucket at or after windowStart +
\* windowMs is allowed, however full the bucket was and however often it was
\* denied; and a consume inside the window, allowed or denied, leaves
\* windowStart where it was, so that denials do not postpone the reset
C26_AdmittedAfterWindow ==
  [][\A i \in Issuers, t \in IssuerTier, rt \in Routes :
       (ConsumeStep(i, t, rt) /\ BucketKey(i, rt) \in DOMAIN usage) =>
         LET k == BucketKey(i, rt)
         IN IF now >= usage[k].windowStart + windowMs
              THEN Limit(t) >= 1 => /\ lastOp'.result.allowed
                                    /\ usage'[k].windowStart = now
                                    /\ usage'[k].count = 1
              ELSE usage'[k].windowStart = usage[k].windowStart]_vars

\* the first consume after a window that ended with denials
C26_Witness ==
  /\ lastOp.op = "consume" /\ lastOp.afterDenial
  /\ lastOp.result.allowed
  /\ usage[lastOp.key].windowStart = now

\* C27 as stated: every result of consume, allowed or denied, has resetAt =
\* windowStart + windowMs of the bucket as the rollover check left it, and
\* resetAt is later than the time the consume read
C27_ResetAtAhead ==
  [][\A i \in Issuers, t \in IssuerTier, rt \in Routes :
       ConsumeStep(i, t, rt) =>
         /\ lastOp'.result.resetAt = usage'[BucketKey(i, rt)].windowStart + windowMs
         /\ lastOp'.result.resetAt > now]_vars

\* a step in which consume(i, t, rt) runs, called by the guard or directly
ConsumeCall(i, t, rt) ==
  \/ DirectConsume(i, t, rt)
  \/ /\ GuardResume(1)
     /\ req[1].pc = "resolved"
     /\ req[1].issuer = [id |-> i, tier |-> t]
     /\ req[1].route = rt

\* C28: consume(issuerId, tier, routeKey) changes the bucket issuerId:routeKey
\* and no other: the buckets of other issuers and of other routes of the same
\* issuer, and the directory cache, are what they were; getUsageSummary
\* changes no bucket
C28_OnlyItsBucket ==
  [][/\ \A i \in Issuers \cup OtherIssuers, t \in IssuerTier,
          rt \in Routes \cup OtherRoutes :
          ConsumeCall(i, t, rt) =>
            /\ DOMAIN usage' = DOMAIN usage \cup {i \o ":" \o rt}
            /\ \A x \in DOMAIN usage : x # i \o ":" \o rt => usage'[x] = usage[x]
            /\ issuerCache' = issuerCache
     /\ GetUsage => usage' = usage /\ issuerCache' = issuerCache]_vars

\* three buckets, the consumed one full and another one not, beside a cached
\* issuer
C28_Witness ==
  /\ lastOp.op = "consume"
  /\ Cardinality(DOMAIN usage) = 3
  /\ DOMAIN issuerCache # {}
  /\ \E x \in DOMAIN usage :
       /\ x # lastOp.key
       /\ usage[x].windowStart # usage[lastOp.key].windowStart

\* C29: notifiedUpgrade is true as soon as the upgrade notification is
\* dispatched, whatever becomes of the job; a refused enqueue leaves the flag
\* and the buckets alone; the flag goes back to false only in a consume that
\* rolls the window over; and a consume inside a window whose flag is set
\* dispatches no upgrade notification, so a failed one is never retried
C29_FailedUpgradeNotRetried ==
  [][/\ lastOp'.job.type = "rate-limit-upgrade-notification"
          => usage'[lastOp'.key].notifiedUpgrade
     /\ QueueAddRejects => usage' = usage
     /\ \A k \in DOMAIN usage :
          /\ (usage[k].notifiedUpgrade /\ ~usage'[k].notifiedUpgrade)
               => lastOp'.key = k /\ lastOp'.rolled /\ lastOp' # lastOp
          /\ ( /\ usage[k].notifiedUpgrade
               /\ now - usage[k].windowStart < windowMs
               /\ \E i \in Issuers, t \in IssuerTier, rt \in Routes :
                    BucketKey(i, rt) = k /\ ConsumeStep(i, t, rt) )
               => lastOp'.job.type # "rate-limit-upgrade-notification"]_vars

\* the consume that follows a refused upgrade notification in the same window
C29_Witness ==
  /\ lastOp.op = "consume" /\ lastOp.afterRejectedUpgrade
  /\ lastOp.result.allowed
  /\ lastOp.job.type = "none"
  /\ usage[lastOp.key].notifiedUpgrade
  /\ win[lastOp.key].upgrades = 1

\* C30: the directory cache changes only when a lookup of resolveIssuer finds
\* an active issuer, and then only in the entry of that call's key; a lookup
\* that finds none writes nothing, so that a call whose key has no unexpired
\* entry always performs the lookup; and no step removes an entry: an expired
\* one stays in the map until a later lookup that succeeds overwrites it
C30_CacheWrittenOnSuccessOnly ==
  [][/\ DOMAIN issuerCache \subseteq DOMAIN issuerCache'
     /\ issuerCache' # issuerCache =>
          \E r \in Requests :
            /\ FindOneReturn(r)
            /\ \E i \in Issuers : /\ issuers[i].isActive
                                   /\ issuers[i].apiKeyHash = Sha256(req[r].apiKey)
            /\ \A k \in DOMAIN issuerCache :
                 k # req[r].apiKey => issuerCache'[k] = issuerCache[k]
     /\ \A r \in Requests :
          ( /\ FindOneReturn(r)
            /\ \A i \in Issuers : ~issuers[i].isActive
                                   \/ issuers[i].apiKeyHash # Sha256(req[r].apiKey) )
          => issuerCache' = issuerCache /\ req'[r].issuer = NullIssuer
     /\ \A r \in Requests, k \in ApiKeys :
          ( /\ DirectResolve(r, k)
            /\ k \notin DOMAIN issuerCache \/ issuerCache[k].cacheUntil <= now )
          => req'[r].pc = "lookup"]_vars

\* a lookup has answered null for a key whose expired entry is still in the map
C30_Witness ==
  \E r \in Requests :
    /\ req[r].pc = "resolved" /\ ~req[r].hit
    /\ req[r].issuer = NullIssuer
    /\ req[r].apiKey \in DOMAIN issuerCache
    /\ issuerCache[req[r].apiKey].cacheUntil <= now

\* C31: a bucket key enters the map only in a consume for its pair, one key
\* at a time, and never leaves it: the set of keys only grows, and a bucket
\* whose window has expired stays as it is until its own key is consumed
C31_BucketsOnlyGrow ==
  [][/\ DOMAIN usage \subseteq DOMAIN usage'
     /\ \A k \in DOMAIN usage' \ DOMAIN usage :
          /\ DOMAIN usage' = DOMAIN usage \cup {k}
          /\ \E i \in Issuers \cup OtherIssuers, t \in IssuerTier,
                rt \in Routes \cup OtherRoutes :
                k = i \o ":" \o rt /\ ConsumeCall(i, t, rt)
          /\ usage'[k].count <= 1
     /\ \A k \in DOMAIN usage :
          ( /\ now - usage[k].windowStart >= windowMs
            /\ ~ \E i \in Issuers \cup OtherIssuers, t \in IssuerTier,
                    rt \in Routes \cup OtherRoutes :
                    k = i \o ":" \o rt /\ ConsumeCall(i, t, rt) )
            => usage'[k] = usage[k]]_vars

\* an expired bucket lies in the map while another key is being consumed
C31_Witness ==
  /\ lastOp.op = "consume"
  /\ \E k \in DOMAIN usage :
       /\ k # lastOp.key
       /\ now - usage[k].windowStart >= windowMs
       /\ usage[k].count >= 1
       /\ usage[lastOp.key].windowStart = now

\* C32 as stated: once the handler of a deprecated endpoint has completed,
\* with or without a value, or has failed, the response carries Deprecation,
\* X-API-Deprecated-Since and X-API-Deprecation-Info
C32_HeadersOnEveryResponse ==
  ( /\ deprecation.pc \in {"completed", "errored"}
    /\ deprecation.handlerMetadata.present \/ deprecation.classMetadata.present )
  => {"Deprecation", "X-API-Deprecated-Since", "X-API-Deprecation-Info"}
       \subseteq DOMAIN deprecation.headers

\* the lookups in flight for the key k
LookupsInFlight(k) == {r \in Requests : req[r].pc = "lookup" /\ req[r].apiKey = k}

\* C33 as stated: at most one lookup per API key is in flight at any time
C33_OneLookupPerKey ==
  \A k \in ApiKeys : Cardinality(LookupsInFlight(k)) <= 1

\* C33 amended: a resolveIssuer call that finds no unexpired entry for its key
\* queries the store itself, also while lookups for the same key are in
\* flight; a lookup that returns hands its result to its own call only, and
\* the other lookups for the key stay in flight
C33_EveryMissLooksUp ==
  [][/\ \A r \in Requests, k \in ApiKeys :
          ( /\ DirectResolve(r, k)
            /\ LookupsInFlight(k) # {}
            /\ k \notin DOMAIN issuerCache \/ issuerCache[k].cacheUntil <= now )
          => /\ req'[r].pc = "lookup"
             /\ LookupsInFlight(k)' = LookupsInFlight(k) \cup {r}
     /\ \A r \in Requests :
          FindOneReturn(r)
          => /\ LookupsInFlight(req[r].apiKey)' = LookupsInFlight(req[r].apiKey) \ {r}
             /\ \A q \in Requests \ {r} : req'[q] = req[q]]_vars

\* two calls for one key are both waiting for the store
C33_Witness ==
  \E k \in ApiKeys :
    /\ Cardinality(LookupsInFlight(k)) = 2
    /\ \E r \in LookupsInFlight(k), q \in LookupsInFlight(k) :
         req[r].started < req[q].started

\* C34 as stated: the cacheUntil of a key never decreases, whichever of the
\* overlapping calls for the key writes the entry last
C34_CacheUntilMonotone ==
  [][\A k \in DOMAIN issuerCache :
       issuerCache'[k].cacheUntil >= issuerCache[k].cacheUntil]_vars

\* the admissions of bucket k logged from time a to time a + windowMs
AdmittedIn(log, a) == {n \in DOMAIN log : a <= log[n] /\ log[n] <= a + windowMs}

\* C35: with a constant tier, a bucket's new windowStart is at least windowMs
\* after the one it replaces, so windows never overlap, and the requests
\* admitted for the bucket in any interval of length windowMs are at most
\* twice the limit
C35_BoundaryBurst ==
  [][/\ \A k \in DOMAIN usage :
          usage'[k].windowStart # usage[k].windowStart
            => usage'[k].windowStart >= usage[k].windowStart + windowMs
     /\ \A k \in DOMAIN admitted' : \A a \in 0..MaxTime :
          Cardinality(AdmittedIn(admitted'[k], a)) <= 2 * Limit(FREE)]_vars

\* the burst: a full window, and a full next window windowMs later
C35_Witness ==
  \E k \in DOMAIN admitted : \E a \in 0..MaxTime :
    /\ Cardinality(AdmittedIn(admitted[k], a)) = 2 * Limit(FREE)
    /\ Limit(FREE) >= 2
    /\ usage[k].windowStart = a + windowMs

\* C36 as stated: in every tuple getUsageSummary returns, count <= limit, and
\* the limit is the one the most recent consume on that bucket returned,
\* whatever tiers were passed to consume in the window (the buckets of this
\* specification are those of one issuer and one route)
C36_SummaryLimitIsEnforcedLimit ==
  [][GetUsage =>
       \A row \in response'.data :
         /\ row.count <= row.limit
         /\ lastOp.op = "consume" => row.limit = lastOp.result.limit]_vars

\* canActivate, up to its return or its await, for a request with this header
CanActivateWith(r, header) ==
  IF ApiKeyOf(header) = NoHeader
    THEN GuardNoKey(r)
    ELSE \E rt \in Routes : GuardStart(r, ApiKeyOf(header), rt)

\* C37 as stated: a request that presents an x-api-key header, an empty one
\* included, is not let through by the guard without a resolution of its key:
\* its call goes to the directory, to be rate limited or rejected afterwards
C37_PresentedKeyIsResolved ==
  [][\A r \in Requests, header \in XApiKeyHeaders :
       (header.kind # "undefined" /\ CanActivateWith(r, header))
       => /\ req'[r].pc \in {"lookup", "resolved"}
          /\ response' = response]_vars

\* a handleVerify call made by the form or by the effect on the URL
HandleVerifyCalled ==
  \/ HandleSubmit /\ Trim(verifier.serial) # ""
  \/ \E serialParam \in Serials : AutoVerify(serialParam) /\ Trim(serialParam) # ""

\* C38: at most one certificateApi.verify call is in flight; loading and the
\* in-flight guard are true exactly while one is; a handleVerify call made
\* meanwhile calls nothing and leaves loading, result and error alone; when
\* the call resolves or rejects loading is false and the guard released, and
\* the next handleVerify is accepted
C38_OneVerifyInFlight ==
  [][/\ verifier'.inFlight <= 1
     /\ verifier'.loading = (verifier'.inFlight = 1)
     /\ verifier'.isVerifying = (verifier'.inFlight = 1)
     /\ (HandleVerifyCalled /\ verifier.inFlight = 1)
          => /\ verifier'.inFlight = 1
             /\ verifier'.loading = verifier.loading
             /\ verifier'.result = verifier.result
             /\ verifier'.error = verifier.error
     /\ (HandleVerifyCalled /\ verifier.inFlight = 0)
          => verifier'.inFlight = 1 /\ verifier'.loading
     /\ (VerifyRejects \/ \E result \in VerificationResults(verifier.calling) :
                             VerifyResolves(result))
          => ~verifier'.loading /\ ~verifier'.isVerifying]_vars

\* a call was dropped while another was in flight, that one settled, and a
\* new one is in flight
C38_Witness ==
  /\ verifier.dropped
  /\ verifier.settled
  /\ verifier.inFlight = 1
  /\ verifier.loading

\* the subscriptions of the issuer of the current triggerEvent call that are
\* active and list its event
Matching ==
  {id \in SubscriptionIds :
     /\ webhooks.subscriptions[id].issuerId = webhooks.call.issuerId
     /\ webhooks.subscriptions[id].isActive = TRUE
     /\ webhooks.call.event \in webhooks.subscriptions[id].events}

\* the jobs the current triggerEvent call has put on the queue
JobsOfCall ==
  SubSeq(webhooks.queue, webhooks.call.base + 1, Len(webhooks.queue))

\* the number of jobs of the current call for one subscription
JobsFor(id) ==
  Cardinality({n \in 1..Len(JobsOfCall) : JobsOfCall[n].subscriptionId = id})

\* during and after a triggerEvent call
TriggerPost ==
  /\ \A n \in 1..Len(JobsOfCall) :
       /\ JobsOfCall[n] = [name |-> "deliver",
                           subscriptionId |-> JobsOfCall[n].subscriptionId,
                           event |-> webhooks.call.event,
                           payload |-> webhooks.call.payload,
                           attempt |-> 1]
       /\ JobsOfCall[n].subscriptionId \in Matching
  /\ \A id \in SubscriptionIds : JobsFor(id) <= 1
  /\ webhooks.call.pc = "done" =>
       \A id \in SubscriptionIds : JobsFor(id) = IF id \in Matching THEN 1 ELSE 0
  /\ webhooks.call.pc = "failed" =>
       /\ Len(JobsOfCall) < Cardinality(Matching)
       /\ \A n \in 1..Len(webhooks.call.relevantSubs) :
            JobsFor(webhooks.call.relevantSubs[n]) =
              IF n < webhooks.call.next THEN 1 ELSE 0

\* C39: triggerEvent enqueues exactly one 'deliver' job with attempt 1 for each
\* active subscription of the issuer that lists the event and none for any
\* other subscription; when an enqueue fails the jobs already on the queue stay
\* and the subscriptions after the failed one get no job
C39_OneDeliverJobPerSubscription ==
  [][/\ Len(webhooks.queue) <= Len(webhooks'.queue)
     /\ SubSeq(webhooks'.queue, 1, Len(webhooks.queue)) = webhooks.queue
     /\ TriggerPost']_vars

\* a call failed at its second enqueue of three: one job is on the queue, two
\* subscriptions have none
C39_Witness ==
  /\ webhooks.call.pc = "failed"
  /\ Cardinality(Matching) = 3
  /\ Len(JobsOfCall) = 1
  /\ webhooks.call.next = 2

\* C40: the effective windowMs, freeLimit and paidLimit are strictly positive
\* whatever is configured, and every RateLimitResult has limit >= 1
C40_ConfigurationPositive ==
  /\ windowMs >= 1
  /\ freeLimit >= 1
  /\ paidLimit >= 1
  /\ lastOp.op = "consume" => lastOp.result.limit >= 1

====
